---- MODULE Spec2Model ----
(***************************************************************************)
(* State-machine model of the bro-file-manager server core: request path   *)
(* resolution, the storage adapters' path check, signed session tokens,    *)
(* the per-session S3 connection registry, the S3 config document and the  *)
(* local trash / restore bookkeeping.                                      *)
(*                                                                         *)
(* Strings are sequences of one-character strings, so that prefix tests    *)
(* (startsWith), split and normalisation are computed character by         *)
(* character as the code computes them.                                    *)
(***************************************************************************)
EXTENDS Integers, Sequences, FiniteSets, TLC

VARIABLES
    req,        \* path resolution: the caller-supplied path string
    root,       \* path resolution: the root (rootReal / adapter root) as a string
    links,      \* path resolution: the symbolic links present on the host
    out,        \* path resolution: result of the last resolve call
    now,        \* sessions: Date.now(), in milliseconds
    ticks,      \* sessions: how often the clock has advanced
    secret,     \* sessions: SESSION_SECRET of the running process
    issued,     \* sessions: the tokens createSession has returned so far
    presented,  \* sessions: the cookie value of the request being verified
    verdict,    \* sessions: what verifySession returned for it
    attached,   \* sessions: the session cookie the response sets
    answer,     \* sessions: status and body of the response to a login
    audit,      \* sessions: the lines auditLog has written
    doc,        \* S3: the s3Configs array stored in data/settings.json
    nextId,     \* S3: the next id crypto.randomUUID() mints
    s3Sessions, \* S3: the s3Sessions map, session id -> bound config id (0: no entry)
    tasks,      \* S3: the request handlers in progress, each at an await
    served,     \* S3: the config of the adapter requireS3Session handed out last (0: none)
    acked,      \* S3: the config edits that were answered with success
    disk,       \* trash: the host file system, host path -> entry
    handlers,   \* trash: the trash / restore handlers in progress, each at an await
    reply,      \* trash: the response sent last
    uuid,       \* trash: the next id randomUUID() mints
    trashed,    \* trash: what each answered trash request moved, by id
    bucket,     \* adapters: the objects of the S3 bucket, key -> object
    outcome     \* adapters: the outcome of the last StorageAdapter call

pathVars == <<req, root, links, out>>
authVars == <<attached, answer, audit>>
sessVars == <<now, ticks, secret, issued, presented, verdict, authVars>>
s3Vars == <<doc, nextId, s3Sessions, tasks, served, acked>>
trashVars == <<disk, handlers, reply, uuid, trashed>>
adapterVars == <<bucket, outcome>>

vars ==
    <<req, root, links, out, now, ticks, secret, issued, presented, verdict,
      attached, answer, audit,
      doc, nextId, s3Sessions, tasks, served, acked,
      disk, handlers, reply, uuid, trashed, bucket, outcome>>

\* what the actions of one part of the model leave alone
notPath == <<sessVars, s3Vars, trashVars, adapterVars>>
notSess == <<pathVars, s3Vars, trashVars, adapterVars>>
notS3 == <<pathVars, sessVars, trashVars, adapterVars>>
notTrash == <<pathVars, sessVars, s3Vars, adapterVars>>
notAdapter == <<pathVars, sessVars, s3Vars>>

-----------------------------------------------------------------------------
(* Bounds of the model.                                                    *)

\* number of pieces a request path is concatenated from
MaxPieces == 3

\* how many symbolic links realpath follows before giving up (ELOOP)
MaxSymlinkHops == 2

\* how many session tokens are issued
MaxTokens == 2

\* how often the clock advances
MaxTicks == 2

\* how many tokens logins and rotations issue together
MaxIssued == 3

\* how many lines the audit log takes
MaxAudit == 3
\* adapters: the deepest host path of the tree the model follows
MaxDepth == 4

\* how many S3 profiles are ever created
MaxConfigs == 3

\* how many sessions use the S3 connection registry
NumSessions == 3

\* how many handlers that edit the config document run concurrently
MaxTasks == 2

\* how many handlers of the connection registry are at an await at a time
\* (the handlers without an await run in between)
MaxHandlers == 1

\* how many trash requests get as far as minting an id
MaxTrashed == 2

-----------------------------------------------------------------------------
(* Character strings.                                                      *)

SLASH == "/"
BACKSLASH == "\\"
SPACE == " "
DOT == "."

\* String.prototype.startsWith
StartsWith(s, p) ==
    /\ Len(p) <= Len(s)
    /\ SubSeq(s, 1, Len(p)) = p

\* String.prototype.endsWith
EndsWith(s, p) ==
    /\ Len(p) <= Len(s)
    /\ SubSeq(s, Len(s) - Len(p) + 1, Len(s)) = p

RECURSIVE TrimStart(_)
TrimStart(s) ==
    IF s # <<>> /\ Head(s) = SPACE THEN TrimStart(Tail(s)) ELSE s

RECURSIVE TrimEnd(_)
TrimEnd(s) ==
    IF s # <<>> /\ s[Len(s)] = SPACE THEN TrimEnd(SubSeq(s, 1, Len(s) - 1)) ELSE s

\* String.prototype.trim (the only whitespace of the model is the blank)
Trim(s) == TrimEnd(TrimStart(s))

\* raw.replace(/\\/g, "/")
ReplaceBackslashes(s) == [i \in 1..Len(s) |-> IF s[i] = BACKSLASH THEN SLASH ELSE s[i]]

\* String.prototype.split(sep) for a one-character separator: the list of the
\* pieces between separators, empty pieces included.
RECURSIVE SplitAcc(_, _, _, _)
SplitAcc(s, sep, cur, acc) ==
    IF s = <<>> THEN Append(acc, cur)
    ELSE IF Head(s) = sep THEN SplitAcc(Tail(s), sep, <<>>, Append(acc, cur))
    ELSE SplitAcc(Tail(s), sep, Append(cur, Head(s)), acc)

Split(s, sep) == SplitAcc(s, sep, <<>>, <<>>)

\* Array.prototype.join(sep)
RECURSIVE Join(_, _)
Join(segs, sep) ==
    IF segs = <<>> THEN <<>>
    ELSE IF Len(segs) = 1 THEN segs[1]
    ELSE segs[1] \o <<sep>> \o Join(Tail(segs), sep)

\* is p a prefix of q, for sequences of segments
IsPrefix(p, q) ==
    /\ Len(p) <= Len(q)
    /\ SubSeq(q, 1, Len(p)) = p

-----------------------------------------------------------------------------
(* path.posix.normalize / path.resolve / path.join.                        *)

DOTDOT == <<DOT, DOT>>

\* normalizeString: drops "" and "." segments; ".." removes the segment
\* before it; above the start it is dropped (absolute) or kept (relative).
RECURSIVE NormalizeSegments(_, _, _)
NormalizeSegments(segs, res, allowAboveRoot) ==
    IF segs = <<>> THEN res
    ELSE
        LET seg == Head(segs)
            rest == Tail(segs)
        IN  IF seg = <<>> \/ seg = <<DOT>>
            THEN NormalizeSegments(rest, res, allowAboveRoot)
            ELSE IF seg = DOTDOT
            THEN IF res # <<>> /\ res[Len(res)] # DOTDOT
                 THEN NormalizeSegments(rest, SubSeq(res, 1, Len(res) - 1), allowAboveRoot)
                 ELSE IF allowAboveRoot
                 THEN NormalizeSegments(rest, Append(res, DOTDOT), allowAboveRoot)
                 ELSE NormalizeSegments(rest, res, allowAboveRoot)
            ELSE NormalizeSegments(rest, Append(res, seg), allowAboveRoot)

\* path.posix.normalize: a trailing separator of the input is kept.
PosixNormalize(p) ==
    IF p = <<>> THEN <<DOT>>
    ELSE
        LET isAbsolute == Head(p) = SLASH
            trailingSeparator == p[Len(p)] = SLASH
            finish(body) ==
                IF body = <<>>
                THEN IF isAbsolute THEN <<SLASH>>
                     ELSE IF trailingSeparator THEN <<DOT, SLASH>> ELSE <<DOT>>
                ELSE (IF isAbsolute THEN <<SLASH>> ELSE <<>>) \o body
                     \o (IF trailingSeparator THEN <<SLASH>> ELSE <<>>)
        IN  finish(Join(NormalizeSegments(Split(p, SLASH), <<>>, ~isAbsolute), SLASH))

\* path.join(a, b): normalize(a + "/" + b), empty arguments skipped.
PathJoin(a, b) ==
    IF b = <<>> THEN PosixNormalize(a)
    ELSE IF a = <<>> THEN PosixNormalize(b)
    ELSE PosixNormalize(a \o <<SLASH>> \o b)

\* path.resolve(base, rel) for an absolute base: an absolute rel replaces the
\* base; the result is normalized and carries no trailing separator.
PathResolve(base, rel) ==
    LET full == IF rel # <<>> /\ Head(rel) = SLASH THEN rel ELSE base \o <<SLASH>> \o rel
    IN  <<SLASH>> \o Join(NormalizeSegments(Split(full, SLASH), <<>>, FALSE), SLASH)

\* the segments of an absolute, normalized host path ("/" has none)
SegmentsOf(p) == NormalizeSegments(Split(p, SLASH), <<>>, FALSE)

\* the absolute host path string of a list of segments
PathOf(segs) == <<SLASH>> \o Join(segs, SLASH)

-----------------------------------------------------------------------------
(* The host file system seen by path resolution.                           *)

nD == <<"d">>
nU == <<"u">>
nUB == <<"u", "b">>
nA == <<"a">>
nB == <<"b">>
nE == <<"e">>
nL == <<"l">>
TRASH_NAME == <<DOT, "t", "r", "a", "s", "h">>

\* directories of the host (as lists of segments); /d is FILE_ROOT, /d/u a
\* user's root, /d/ub a sibling whose name has the root's name as a prefix
HostDirs ==
    { <<>>, <<nD>>, <<nD, nU>>, <<nD, nU, nA>>, <<nD, nU, TRASH_NAME>>, <<nD, nUB>> }

\* regular files of the host
HostFiles ==
    { <<nD, nU, nA, nB>>, <<nD, nU, TRASH_NAME, nB>>, <<nD, nUB, nB>>, <<nE>> }

\* the host tree fs.realpath walks: its directories and its regular files
Host == [dirs |-> HostDirs, files |-> HostFiles]

\* where a symbolic link may sit, and what it may point to
LinkSite1 == <<nD, nU, nL>>
LinkSite2 == <<nD, nU, nA, nL>>
LinkTargets1 == { <<nD, nUB>>, <<nE>>, <<nD, nU, nA>>, <<nD, nU, TRASH_NAME>>, <<nD, nU, nL>> }
LinkTargets2 == { <<nD, nU, nL>> }

LinkConfigs ==
    { l1 @@ l2 :
        l1 \in {<<>>} \cup { (LinkSite1 :> t) : t \in LinkTargets1 },
        l2 \in {<<>>} \cup { (LinkSite2 :> t) : t \in LinkTargets2 } }

\* the roots a resolve call is made against (a user's rootReal, never a link)
Roots == { PathOf(<<nD, nU>>), PathOf(<<nD>>) }

\* fs.realpath: walks the components, following every symbolic link; fails
\* when a component does not exist (ENOENT), lies under a regular file
\* (ENOTDIR) or the links do not end (ELOOP).
RECURSIVE RealWalk(_, _, _, _, _)
RealWalk(cur, rest, lk, hops, host) ==
    IF rest = <<>> THEN [ok |-> TRUE, segs |-> cur]
    ELSE
        LET next == Append(cur, Head(rest))
        IN  IF next \in DOMAIN lk
            THEN IF hops = 0 THEN [ok |-> FALSE, segs |-> <<>>]
                 ELSE RealWalk(<<>>, lk[next] \o Tail(rest), lk, hops - 1, host)
            ELSE IF next \in host.dirs THEN RealWalk(next, Tail(rest), lk, hops, host)
            ELSE IF next \in host.files /\ Tail(rest) = <<>> THEN [ok |-> TRUE, segs |-> next]
            ELSE [ok |-> FALSE, segs |-> <<>>]

RealPath(p, lk, host) ==
    LET result(w) == [ok |-> w.ok, path |-> PathOf(w.segs)]
    IN  result(RealWalk(<<>>, SegmentsOf(p), lk, MaxSymlinkHops, host))

-----------------------------------------------------------------------------
(* Request path resolution of the server.                                  *)

TRASH_PATH == <<SLASH>> \o TRASH_NAME

\* the host path without its last segment
Front(p) == SubSeq(p, 1, Len(p) - 1)

\* sanitizeName, null as the empty string
sanitizeName(value) ==
    LET clean(trimmed) ==
            IF trimmed = <<>> THEN <<>>
            ELSE IF (\E i \in 1..Len(trimmed) : trimmed[i] \in {SLASH, BACKSLASH}) THEN <<>>
            ELSE IF trimmed = <<DOT>> \/ trimmed = DOTDOT THEN <<>>
            ELSE trimmed
    IN  clean(Trim(value))

\* path.basename / path.posix.basename and path.posix.dirname of a normalized
\* absolute path
basename(p) ==
    LET last(s) == IF s = <<>> THEN <<>> ELSE s[Len(s)] IN last(SegmentsOf(p))

dirname(p) ==
    LET above(s) == IF s = <<>> THEN <<SLASH>> ELSE PathOf(Front(s)) IN above(SegmentsOf(p))

normalizeRequestPath(input) ==
    LET raw0(trimmed) == IF trimmed = <<>> THEN <<SLASH>> ELSE trimmed
        raw2(raw1) == IF StartsWith(raw1, <<SLASH>>) THEN raw1 ELSE <<SLASH>> \o raw1
        rooted(normalized) ==
            IF ~StartsWith(normalized, <<SLASH>>) THEN <<SLASH>> ELSE normalized
    IN  rooted(PosixNormalize(raw2(ReplaceBackslashes(raw0(Trim(input))))))

isWithinRoot_NoSeparator(candidate, rootReal) ==
    \/ candidate = rootReal
    \/ StartsWith(candidate, rootReal)

isWithinRoot(candidate, rootReal) ==
    \/ candidate = rootReal
    \/ LET rootWithSep ==
               IF EndsWith(rootReal, <<SLASH>>) THEN rootReal ELSE rootReal \o <<SLASH>>
       IN  StartsWith(candidate, rootWithSep)

Failure(op, normalized, err) ==
    [op |-> op, ok |-> FALSE, err |-> err, normalized |-> normalized, fullPath |-> <<>>]

resolveSafePath(requestPath, rootReal, lk, host) ==
    LET checked(normalized, real) ==
            IF ~real.ok
            THEN Failure("resolveSafePath", normalized, "ENOENT")
            ELSE IF ~isWithinRoot(real.path, rootReal)
            THEN Failure("resolveSafePath", normalized, "Path escapes root")
            ELSE [op |-> "resolveSafePath", ok |-> TRUE, err |-> "",
                  normalized |-> normalized, fullPath |-> real.path]
        joined(normalized) == PathResolve(rootReal, <<DOT>> \o normalized)
        resolved(normalized) ==
            IF normalized = TRASH_PATH \/ StartsWith(normalized, TRASH_PATH \o <<SLASH>>)
            THEN Failure("resolveSafePath", normalized, "Path not allowed")
            ELSE checked(normalized, RealPath(joined(normalized), lk, host))
    IN  resolved(normalizeRequestPath(requestPath))

\* resolveDestinationPath: null for the root, for every path that begins with
\* /.trash and for a last segment that is no name; the parent is resolved with
\* resolveSafePath (which may throw), the name is joined to it
resolveDestinationPath(target, rootReal, lk, host) ==
    LET joined(normalized, name, parent) ==
            IF ~parent.ok THEN Failure("resolveDestinationPath", normalized, parent.err)
            ELSE [op |-> "resolveDestinationPath", ok |-> TRUE, err |-> "",
                  normalized |-> normalized, fullPath |-> PathJoin(parent.fullPath, name)]
        named(normalized, name) ==
            IF name = <<>> THEN Failure("resolveDestinationPath", normalized, "null")
            ELSE joined(normalized, name,
                        resolveSafePath(dirname(normalized), rootReal, lk, host))
        checked(normalized) ==
            IF normalized = <<SLASH>> \/ StartsWith(normalized, TRASH_PATH)
            THEN Failure("resolveDestinationPath", normalized, "null")
            ELSE named(normalized, sanitizeName(basename(normalized)))
    IN  checked(normalizeRequestPath(target))

-----------------------------------------------------------------------------
(* Path resolution of LocalStorageAdapter.                                 *)

\* LocalStorageAdapter.resolvePath with this.root = rootDir
resolvePath(path, rootDir) ==
    LET guarded(resolved) ==
            IF ~StartsWith(resolved, rootDir)
            THEN Failure("resolvePath", <<>>, "Path traversal detected")
            ELSE [op |-> "resolvePath", ok |-> TRUE, err |-> "",
                  normalized |-> <<>>, fullPath |-> resolved]
    IN  guarded(PosixNormalize(PathJoin(rootDir, path)))

-----------------------------------------------------------------------------
(* Specification of path resolution: the inputs are drawn in the initial   *)
(* state, an action applies one resolver to them.                          *)

Pieces ==
    { <<SLASH>>, <<BACKSLASH>>, DOTDOT, <<DOT>>, nA, nL, nUB, TRASH_NAME, <<SPACE>> }

RECURSIVE Concat(_)
Concat(ps) == IF ps = <<>> THEN <<>> ELSE Head(ps) \o Concat(Tail(ps))

RequestPaths ==
    { Concat(ps) : ps \in UNION { [1..n -> Pieces] : n \in 0..MaxPieces } }

NoResult == [op |-> "none", ok |-> FALSE, err |-> "", normalized |-> <<>>, fullPath |-> <<>>]

PathInit ==
    /\ req \in RequestPaths
    /\ root \in Roots
    /\ links \in LinkConfigs
    /\ out = NoResult

\* a request handler resolves the caller's path against the user's root
ResolveSafe ==
    /\ out.op = "none"
    /\ out' = resolveSafePath(req, root, links, Host)
    /\ UNCHANGED <<req, root, links>>
    /\ UNCHANGED notPath

\* a LocalStorageAdapter operation resolves its path argument
AdapterResolve ==
    /\ out.op = "none"
    /\ out' = resolvePath(req, root)
    /\ UNCHANGED <<req, root, links>>
    /\ UNCHANGED notPath

\* a move or copy handler resolves the destination the caller names
ResolveDestination ==
    /\ out.op = "none"
    /\ out' = resolveDestinationPath(req, root, links, Host)
    /\ UNCHANGED <<req, root, links>>
    /\ UNCHANGED notPath

PathNext == ResolveSafe \/ AdapterResolve \/ ResolveDestination

PathIdle ==
    /\ req = <<>>
    /\ root = <<SLASH>>
    /\ links = <<>>
    /\ out = NoResult

\* a host path lies in the tree of a root: segment by segment, the root's
\* segments are the first segments of the path
RootedAt(p, r) == IsPrefix(SegmentsOf(r), SegmentsOf(p))

\* C1: whenever resolveSafePath returns a host path, that path exists on the
\* host, is free of symbolic links (it is its own realpath) and is the root
\* or lies below it; otherwise the call fails.
C1_ResolveSafeRooted ==
    (out.op = "resolveSafePath" /\ out.ok) =>
        /\ RootedAt(out.fullPath, root)
        /\ RealPath(out.fullPath, links, Host) = [ok |-> TRUE, path |-> out.fullPath]

\* resolveSafePath succeeded on a path that runs through a symbolic link
C1_Witness ==
    /\ out.op = "resolveSafePath" /\ out.ok
    /\ out.fullPath # PathResolve(root, <<DOT>> \o out.normalized)
    /\ out.fullPath # root

\* C2: every within-root test accepts a host path only if it is the root or
\* lies below root + separator: whichever resolver accepted the path, the
\* accepted host path is in the tree of the root.
C2_EveryWithinRootTest ==
    out.ok => RootedAt(out.fullPath, root)

\* the host path is the trash directory of the root or lies in it
InTrash(p, r) == IsPrefix(SegmentsOf(r) \o <<TRASH_NAME>>, SegmentsOf(p))

\* C13: a caller-supplied path whose normalized form is /.trash or lies under
\* /.trash/ is never resolved, neither by resolveSafePath nor by
\* resolveDestinationPath, so no request names an entry of the caller's trash
\* area: every host path the two resolvers return lies outside <root>/.trash.
C13_TrashNeverResolved ==
    out.op \in {"resolveSafePath", "resolveDestinationPath"} =>
        /\ (\/ normalizeRequestPath(req) = TRASH_PATH
            \/ StartsWith(normalizeRequestPath(req), TRASH_PATH \o <<SLASH>>)) => ~out.ok
        /\ out.ok => ~InTrash(out.fullPath, root)

-----------------------------------------------------------------------------
(* Session tokens.  A token is a string of symbols; a symbol is a          *)
(* one-element tuple <<c>> for an ordinary character c, or a symbol of an  *)
(* HMAC digest.  HMAC-SHA256 is an ideal MAC: the digest of a message      *)
(* under a key is a string of two symbols that no other (key, message)     *)
(* pair produces.  base64url(JSON.stringify(payload)) is a serialisation   *)
(* of the three fields that the decoder parses back.                       *)

SESSION_TTL_MS == 1000 * 60 * 60 * 8
SESSION_ROTATE_MS == 1000 * 60 * 30

Ch(c) == <<c>>

DigitChars == <<"0", "1", "2", "3", "4", "5", "6", "7", "8", "9">>

\* the decimal digits of a natural number
RECURSIVE DigitsOf(_)
DigitsOf(n) ==
    IF n < 10 THEN <<Ch(DigitChars[n + 1])>>
    ELSE Append(DigitsOf(n \div 10), Ch(DigitChars[(n % 10) + 1]))

IsDigit(sym) == \E d \in 1..10 : sym = Ch(DigitChars[d])

DigitValue(sym) == (CHOOSE d \in 1..10 : sym = Ch(DigitChars[d])) - 1

RECURSIVE NumberOf(_, _)
NumberOf(s, acc) ==
    IF s = <<>> THEN acc ELSE NumberOf(Tail(s), acc * 10 + DigitValue(Head(s)))

\* JSON.stringify(payload) followed by base64UrlEncode
EncodePayload(p) ==
    <<Ch("e")>> \o DigitsOf(p.exp) \o <<Ch(";"), Ch("n"), Ch(p.nonce)>>
        \o <<Ch(";"), Ch("u"), Ch(p.user)>>

NoPayload == [ok |-> FALSE, exp |-> 0, nonce |-> "", user |-> ""]

\* base64UrlDecode followed by JSON.parse and the typeof checks: the three
\* fields, or nothing when the text is not a payload
DecodePayload(s) ==
    LET f == Split(s, Ch(";"))
    IN  IF /\ Len(f) = 3
           /\ Len(f[1]) >= 2 /\ f[1][1] = Ch("e")
           /\ \A i \in 2..Len(f[1]) : IsDigit(f[1][i])
           /\ Len(f[2]) = 2 /\ f[2][1] = Ch("n") /\ Len(f[2][2]) = 1
           /\ Len(f[3]) = 2 /\ f[3][1] = Ch("u") /\ Len(f[3][2]) = 1
        THEN [ok |-> TRUE, exp |-> NumberOf(Tail(f[1]), 0),
              nonce |-> f[2][2][1], user |-> f[3][2][1]]
        ELSE NoPayload

\* createHmac("sha256", SESSION_SECRET).update(value).digest("base64url")
sign(value, key) == << <<"mac", "0", key, value>>, <<"mac", "1", key, value>> >>

safeEqual(a, b) ==
    IF Len(a) # Len(b) THEN FALSE ELSE a = b

createSession(user, nonce, time, key) ==
    LET payload == [exp |-> time + SESSION_TTL_MS, nonce |-> nonce, user |-> user]
        encoded == EncodePayload(payload)
        signature == sign(encoded, key)
    IN  encoded \o <<Ch(".")>> \o signature

\* verifySession: of token.split(".") only the first two pieces are used
verifySession(token, time, key) ==
    IF token = <<>> THEN NoPayload
    ELSE
        LET parts == Split(token, Ch("."))
            payload == parts[1]
            signature == IF Len(parts) >= 2 THEN parts[2] ELSE <<>>
        IN  IF payload = <<>> \/ signature = <<>> THEN NoPayload
            ELSE IF ~safeEqual(sign(payload, key), signature) THEN NoPayload
            ELSE
                LET data == DecodePayload(payload)
                IN  IF ~data.ok THEN NoPayload
                    ELSE IF data.exp <= time THEN NoPayload
                    ELSE data

Users == {"a", "b"}
Secrets == {"k1", "k2"}

\* randomUUID(): a value no earlier call has returned
FreshNonce == DigitChars[Cardinality(issued) + 1]

\* the instants the clock is looked at: the next millisecond, and for every
\* issued token the last millisecond of its life and the first after it
Instants ==
    {now + 1} \cup { t.t0 + d : t \in issued, d \in {SESSION_TTL_MS - 1, SESSION_TTL_MS} }

\* the symbols a party that alters a token can write: characters, and the
\* digest symbols of the tokens issued so far
Alphabet ==
    {Ch("."), Ch("x")}
        \cup UNION { {t.token[i] : i \in Len(t.token) - 1..Len(t.token)} : t \in issued }

\* every string that differs from t in one place: one symbol changed, one
\* symbol removed, or one symbol added
Altered(t) ==
    ({ [t EXCEPT ![i] = c] : i \in 1..Len(t), c \in Alphabet } \ {t})
        \cup { SubSeq(t, 1, i - 1) \o SubSeq(t, i + 1, Len(t)) : i \in 1..Len(t) }
        \cup { SubSeq(t, 1, i) \o <<c>> \o SubSeq(t, i + 1, Len(t)) :
                 i \in 0..Len(t), c \in Alphabet }

NoCookie == <<>>

\* no response to a login
NoAnswer == [status |-> 0, error |-> ""]

SessInit ==
    /\ now = 0
    /\ ticks = 0
    /\ secret \in Secrets
    /\ issued = {}
    /\ presented = NoCookie
    /\ verdict = NoPayload
    /\ attached = NoCookie
    /\ answer = NoAnswer
    /\ audit = <<>>

SessIdle ==
    /\ now = 0
    /\ ticks = 0
    /\ secret = "k1"
    /\ issued = {}
    /\ presented = NoCookie
    /\ verdict = NoPayload
    /\ attached = NoCookie
    /\ answer = NoAnswer
    /\ audit = <<>>

\* POST /api/login with valid credentials of user u: a token is issued
Login ==
    /\ presented = NoCookie
    /\ Cardinality(issued) < MaxTokens
    /\ \E u \in Users :
        issued' = issued \cup
            { [token |-> createSession(u, FreshNonce, now, secret),
               user |-> u, t0 |-> now, key |-> secret] }
    /\ UNCHANGED <<presented, verdict>>
    /\ UNCHANGED <<now, ticks, secret>>
    /\ UNCHANGED authVars
    /\ UNCHANGED notSess

\* time passes
Tick ==
    /\ presented = NoCookie
    /\ ticks < MaxTicks
    /\ \E t \in Instants : t > now /\ now' = t
    /\ ticks' = ticks + 1
    /\ UNCHANGED <<presented, verdict>>
    /\ UNCHANGED <<secret, issued>>
    /\ UNCHANGED authVars
    /\ UNCHANGED notSess

\* the process is restarted with another SESSION_SECRET
Restart ==
    /\ presented = NoCookie
    /\ \E k \in Secrets \ {secret} : secret' = k
    /\ UNCHANGED <<presented, verdict>>
    /\ UNCHANGED <<now, ticks, issued>>
    /\ UNCHANGED authVars
    /\ UNCHANGED notSess

\* a request carries an issued token as its cookie, unaltered
VerifyIssued ==
    /\ presented = NoCookie
    /\ \E t \in issued : presented' = t.token
    /\ verdict' = verifySession(presented', now, secret)
    /\ UNCHANGED <<now, ticks, secret, issued>>
    /\ UNCHANGED authVars
    /\ UNCHANGED notSess

\* a request carries an issued token of which one symbol was altered
VerifyAltered ==
    /\ presented = NoCookie
    /\ \E t \in issued : \E a \in Altered(t.token) : presented' = a
    /\ verdict' = verifySession(presented', now, secret)
    /\ UNCHANGED <<now, ticks, secret, issued>>
    /\ UNCHANGED authVars
    /\ UNCHANGED notSess

\* the response to the verified request is sent
Respond ==
    /\ presented # NoCookie
    /\ presented' = NoCookie
    /\ verdict' = NoPayload
    /\ UNCHANGED <<now, ticks, secret, issued>>
    /\ UNCHANGED authVars
    /\ UNCHANGED notSess

SessNext == Login \/ Tick \/ Restart \/ VerifyIssued \/ VerifyAltered \/ Respond

\* C3: verify(t) returns the session of user u exactly when the presented
\* cookie is, symbol for symbol, a token issued to u, the clock is strictly
\* before its issue time + TTL and SESSION_SECRET is the one it was signed
\* with; in every other case verify fails.
C3_VerifyIffIntact ==
    presented # NoCookie =>
        \A u \in Users :
            (verdict.ok /\ verdict.user = u) <=>
                \E t \in issued :
                    /\ presented = t.token
                    /\ t.user = u
                    /\ now < t.t0 + SESSION_TTL_MS
                    /\ secret = t.key

-----------------------------------------------------------------------------
(* The session middleware of /api/* and the rotation of the cookie.        *)

needsRotation_Strict(session, time) == session.exp - time < SESSION_ROTATE_MS

\* session.exp - Date.now() <= SESSION_ROTATE_MS
needsRotation(session, time) == session.exp - time <= SESSION_ROTATE_MS

\* the instants the clock is looked at: the next millisecond, and for every
\* issued token the two instants around the rotation threshold and around
\* its expiry
RotateInstants ==
    {now + 1} \cup
    { t.t0 + d : t \in issued,
                 d \in {SESSION_TTL_MS - SESSION_ROTATE_MS - 1, SESSION_TTL_MS - SESSION_ROTATE_MS,
                        SESSION_TTL_MS - 1, SESSION_TTL_MS} }

\* time passes
AuthTick ==
    /\ presented = NoCookie
    /\ answer = NoAnswer
    /\ ticks < MaxTicks
    /\ \E t \in RotateInstants : t > now /\ now' = t
    /\ ticks' = ticks + 1
    /\ UNCHANGED <<secret, issued, presented, verdict, authVars>>
    /\ UNCHANGED notSess

\* a request to /api/* other than the login carries an issued token: the
\* middleware verifies it, looks the user up and, when the token is about to
\* expire, sets a new cookie before the handler of the route runs
Request ==
    /\ presented = NoCookie
    /\ answer = NoAnswer
    /\ Cardinality(issued) < MaxIssued
    /\ \E t \in issued : presented' = t.token
    /\ verdict' = verifySession(presented', now, secret)
    /\ IF verdict'.ok /\ verdict'.user \in Users /\ needsRotation(verdict', now)
       THEN /\ attached' = createSession(verdict'.user, FreshNonce, now, secret)
            /\ issued' = issued \cup
                  { [token |-> attached', user |-> verdict'.user, t0 |-> now, key |-> secret] }
       ELSE /\ attached' = NoCookie
            /\ UNCHANGED issued
    /\ UNCHANGED <<now, ticks, secret, answer, audit>>
    /\ UNCHANGED notSess

\* the response is sent
AuthRespond ==
    /\ presented # NoCookie \/ answer # NoAnswer
    /\ presented' = NoCookie
    /\ verdict' = NoPayload
    /\ attached' = NoCookie
    /\ answer' = NoAnswer
    /\ UNCHANGED <<now, ticks, secret, issued, audit>>
    /\ UNCHANGED notSess

AuthNext == Login \/ AuthTick \/ Request \/ AuthRespond

\* C12: whenever the middleware verifies a request whose token has
\* exp - now <= SESSION_ROTATE_MS (30 minutes) left, the response sets a
\* freshly issued token of the same user that expires SESSION_TTL_MS (8 hours)
\* after that request; and every token issued so far, the rotated one among
\* them, keeps verifying until its own expiry.
C12_RotationKeepsOld ==
    [][ /\ (presented = NoCookie /\ presented' # NoCookie
               /\ verdict'.ok /\ verdict'.exp - now' <= SESSION_ROTATE_MS) =>
             /\ attached' # NoCookie
             /\ attached' # presented'
             /\ attached' \notin {t.token : t \in issued}
             /\ verifySession(attached', now', secret') =
                    [ok |-> TRUE, exp |-> now' + SESSION_TTL_MS,
                     nonce |-> verifySession(attached', now', secret').nonce,
                     user |-> verdict'.user]
        /\ \A t \in issued' :
             now' < t.t0 + SESSION_TTL_MS =>
                 /\ verifySession(t.token, now', secret').ok
                 /\ verifySession(t.token, now', secret').user = t.user ]_vars

\* a request with a token at the rotation threshold was answered with a new
\* cookie
C12_Witness ==
    /\ presented # NoCookie
    /\ verdict.ok
    /\ verdict.exp - now = SESSION_ROTATE_MS
    /\ attached # NoCookie

-----------------------------------------------------------------------------
(* POST /api/login.                                                        *)

\* a character that takes two bytes in UTF-8
EACUTE == "eacute"

\* Buffer.from(s).length: the number of bytes of s in UTF-8
RECURSIVE ByteLength(_)
ByteLength(s) ==
    IF s = <<>> THEN 0
    ELSE (IF Head(s) = EACUTE THEN 2 ELSE 1) + ByteLength(Tail(s))

\* safeEqual throws: crypto.timingSafeEqual is reached with buffers of
\* different byte length when the strings have the same number of characters
safeEqualThrows(a, b) == Len(a) = Len(b) /\ ByteLength(a) # ByteLength(b)

\* scryptSync(password, salt, keylen)
scrypt(password, salt) == << <<"scrypt">>, <<salt>>, password >>

verifyPasswordHash(hash, password) ==
    /\ hash.scheme = "scrypt"
    /\ hash.hash = scrypt(password, hash.salt)

verifyUserPasswordThrows(user, password) ==
    /\ "passwordHash" \notin DOMAIN user
    /\ "password" \in DOMAIN user
    /\ safeEqualThrows(user.password, password)

verifyUserPassword(user, password) ==
    IF "passwordHash" \in DOMAIN user THEN verifyPasswordHash(user.passwordHash, password)
    ELSE IF "password" \in DOMAIN user THEN safeEqual(user.password, password)
    ELSE FALSE

\* the configured users by name: one with a plain password, one with a hash
USER_MAP ==
    [n \in { <<"a">>, <<"b">> } |->
        IF n = <<"a">>
        THEN [username |-> "a", password |-> <<"p", "w">>]
        ELSE [username |-> "b",
              passwordHash |-> [scheme |-> "scrypt", salt |-> "s",
                                hash |-> scrypt(<<"p", "w">>, "s")]]]

NoUser == [username |-> ""]

resolveLoginUser(username) ==
    IF username # <<>> /\ username \in DOMAIN USER_MAP THEN USER_MAP[username]
    ELSE IF Cardinality(DOMAIN USER_MAP) = 1
    THEN USER_MAP[CHOOSE n \in DOMAIN USER_MAP : TRUE]
    ELSE NoUser

\* the user names and passwords of the login requests
LoginNames == { <<"a">>, <<"b">>, <<"z">>, <<>> }
LoginPasswords == { <<"p", "w">>, <<"p", "x">>, <<"p", EACUTE>>, <<"p", "w", SPACE>> }

\* POST /api/login with body { username, password }
LoginRequest(name, password) ==
    /\ presented = NoCookie
    /\ answer = NoAnswer
    /\ Len(audit) < MaxAudit
    /\ Cardinality(issued) < MaxTokens
    /\ UNCHANGED <<now, ticks, secret, presented, verdict>>
    /\ UNCHANGED notSess
    /\ LET respond(user, username, provided) ==
               IF Cardinality(DOMAIN USER_MAP) = 0
               THEN /\ answer' = [status |-> 500, error |-> "No users configured."]
                    /\ UNCHANGED <<issued, attached, audit>>
               ELSE IF user = NoUser
               THEN /\ audit' = Append(audit, [event |-> "login_failed",
                                               reason |-> "user_not_found"])
                    /\ answer' = [status |-> 401, error |-> "Invalid credentials."]
                    /\ UNCHANGED <<issued, attached>>
               ELSE IF verifyUserPasswordThrows(user, provided)
               THEN /\ answer' = [status |-> 500, error |-> "Internal server error."]
                    /\ UNCHANGED <<issued, attached, audit>>
               ELSE IF ~verifyUserPassword(user, provided)
               THEN /\ audit' = Append(audit, [event |-> "login_failed",
                                               reason |-> "bad_password"])
                    /\ answer' = [status |-> 401, error |-> "Invalid credentials."]
                    /\ UNCHANGED <<issued, attached>>
               ELSE /\ attached' = createSession(user.username, FreshNonce, now, secret)
                    /\ issued' = issued \cup
                          { [token |-> attached', user |-> user.username,
                             t0 |-> now, key |-> secret] }
                    /\ audit' = Append(audit, [event |-> "login_success", reason |-> ""])
                    /\ answer' = [status |-> 200, error |-> ""]
           named(username) == respond(resolveLoginUser(username), username, Trim(password))
       IN  named(Trim(name))

LoginNext ==
    \/ \E n \in LoginNames : \E p \in LoginPasswords : LoginRequest(n, p)
    \/ AuthRespond

\* the login names no user has, and the passwords that are not the user's
UnknownUser(name) == Trim(name) \notin DOMAIN USER_MAP

WrongPassword(name, password) ==
    /\ Trim(name) \in DOMAIN USER_MAP
    /\ Trim(password) # <<"p", "w">>

\* C15: the response to a failed login is status 401 with the message
\* "Invalid credentials." and no cookie, whether the user name is unknown or
\* the password is wrong; only the line in the audit log tells the two apart
\* (user_not_found, bad_password).
C15_SameFailure ==
    [][ \A n \in LoginNames : \A p \in LoginPasswords :
          LoginRequest(n, p) =>
            /\ UnknownUser(n) =>
                 /\ answer' = [status |-> 401, error |-> "Invalid credentials."]
                 /\ attached' = NoCookie
                 /\ audit'[Len(audit')].reason = "user_not_found"
            /\ WrongPassword(n, p) =>
                 /\ answer' = [status |-> 401, error |-> "Invalid credentials."]
                 /\ attached' = NoCookie
                 /\ audit'[Len(audit')].reason = "bad_password" ]_vars

-----------------------------------------------------------------------------
(* The S3 config document and the per-session S3 connection registry.      *)
(* A handler that awaits file I/O is two steps: Begin... takes the         *)
(* snapshot readSettings returns, Finish... runs the code after the await. *)
(* Other handlers run between the two.                                     *)

\* the connection cap; the deployment sets it (the UI falls back to 5)
MAX_S3_CONNECTIONS == 2

SessionIds == 1..NumSessions
ConfigIds == 1..MaxConfigs
TaskIds == 1..MaxTasks
HandlerIds == 1..MaxHandlers

Profile(id, rev) == [id |-> id, rev |-> rev]

\* the ids of the profiles of a settings document
IdsOf(d) == { d[i].id : i \in 1..Len(d) }

\* settings.s3Configs.findIndex((c) => c.id === id), 0 for -1
FindIndex(d, id) ==
    IF id \in IdsOf(d) THEN CHOOSE i \in 1..Len(d) : d[i].id = id /\ \A j \in 1..(i - 1) : d[j].id # id
    ELSE 0

\* settings.s3Configs.splice(index, 1)
Splice(d, index) == SubSeq(d, 1, index - 1) \o SubSeq(d, index + 1, Len(d))

IdleTask == [pc |-> "idle", op |-> "none", session |-> 0, id |-> 0, found |-> FALSE, local |-> <<>>]

Await(op, session, id, found, local) ==
    [pc |-> "await", op |-> op, session |-> session, id |-> id, found |-> found, local |-> local]

\* the config ids some session is bound to
Live == { s3Sessions[s] : s \in SessionIds } \ {0}

NoAcks == [add |-> {}, upd |-> {}, del |-> {}]

\* POST /api/s3/connect, up to the await of getS3Adapter: readSettings has
\* returned and the profile was found or not
BeginConnect(t, s, c) ==
    /\ tasks[t] = IdleTask
    /\ tasks' = [tasks EXCEPT ![t] = Await("connect", s, c, c \in IdsOf(doc), <<>>)]
    /\ UNCHANGED <<doc, nextId, s3Sessions, served, acked>>
    /\ UNCHANGED notS3

\* POST /api/s3/connect after the await: 404, or setSessionS3
FinishConnect(t) ==
    /\ tasks[t].pc = "await" /\ tasks[t].op = "connect"
    /\ s3Sessions' =
          IF tasks[t].found
          THEN [s3Sessions EXCEPT ![tasks[t].session] = tasks[t].id]
          ELSE s3Sessions
    /\ tasks' = [tasks EXCEPT ![t] = IdleTask]
    /\ UNCHANGED <<doc, nextId, served, acked>>
    /\ UNCHANGED notS3

\* POST /api/s3/disconnect: clearSessionS3
Disconnect(s) ==
    /\ s3Sessions[s] # 0
    /\ s3Sessions' = [s3Sessions EXCEPT ![s] = 0]
    /\ UNCHANGED <<doc, nextId, tasks, served, acked>>
    /\ UNCHANGED notS3

\* GET /api/s3/current of a connected session, up to the await of getS3Config
BeginCurrent(t, s) ==
    /\ tasks[t] = IdleTask
    /\ s3Sessions[s] # 0
    /\ tasks' = [tasks EXCEPT ![t] = Await("current", s, s3Sessions[s], s3Sessions[s] \in IdsOf(doc), <<>>)]
    /\ UNCHANGED <<doc, nextId, s3Sessions, served, acked>>
    /\ UNCHANGED notS3

\* GET /api/s3/current after the await: a binding whose profile is gone is cleared
FinishCurrent(t) ==
    /\ tasks[t].pc = "await" /\ tasks[t].op = "current"
    /\ s3Sessions' =
          IF tasks[t].found
          THEN s3Sessions
          ELSE [s3Sessions EXCEPT ![tasks[t].session] = 0]
    /\ tasks' = [tasks EXCEPT ![t] = IdleTask]
    /\ UNCHANGED <<doc, nextId, served, acked>>
    /\ UNCHANGED notS3

\* requireS3Session in front of every /api/s3/* file operation: the adapter
\* of the session's binding, or "Not connected to S3"
RequireS3Session(s) ==
    /\ served' = s3Sessions[s]
    /\ UNCHANGED <<doc, nextId, s3Sessions, tasks, acked>>
    /\ UNCHANGED notS3

\* addS3Config up to the await of readSettings
BeginAdd(t) ==
    /\ tasks[t] = IdleTask
    /\ nextId + Cardinality({u \in TaskIds : tasks[u].op = "add"}) <= MaxConfigs
    /\ tasks' = [tasks EXCEPT ![t] = Await("add", 0, 0, TRUE, doc)]
    /\ UNCHANGED <<doc, nextId, s3Sessions, served, acked>>
    /\ UNCHANGED notS3

\* addS3Config after the await: push the new profile, writeSettings, 201
FinishAdd(t) ==
    /\ tasks[t].pc = "await" /\ tasks[t].op = "add"
    /\ doc' = Append(tasks[t].local, Profile(nextId, 0))
    /\ nextId' = nextId + 1
    /\ acked' = [acked EXCEPT !.add = @ \cup {nextId}]
    /\ tasks' = [tasks EXCEPT ![t] = IdleTask]
    /\ UNCHANGED <<s3Sessions, served>>
    /\ UNCHANGED notS3

\* updateS3Config up to the await of readSettings
BeginUpdate(t, id) ==
    /\ tasks[t] = IdleTask
    /\ tasks' = [tasks EXCEPT ![t] = Await("update", 0, id, TRUE, doc)]
    /\ UNCHANGED <<doc, nextId, s3Sessions, served, acked>>
    /\ UNCHANGED notS3

\* updateS3Config after the await: 404, or merge the updates and writeSettings
FinishUpdate(t) ==
    /\ tasks[t].pc = "await" /\ tasks[t].op = "update"
    /\ LET local == tasks[t].local
           index == FindIndex(local, tasks[t].id)
       IN  IF index = 0
           THEN UNCHANGED <<doc, acked>>
           ELSE /\ doc' = [local EXCEPT ![index] = Profile(tasks[t].id, 1)]
                /\ acked' = [acked EXCEPT !.upd = @ \cup {tasks[t].id}]
    /\ tasks' = [tasks EXCEPT ![t] = IdleTask]
    /\ UNCHANGED <<nextId, s3Sessions, served>>
    /\ UNCHANGED notS3

\* DELETE /api/s3/configs/:id, deleteS3Config up to the await of readSettings
BeginDelete(t, id) ==
    /\ tasks[t] = IdleTask
    /\ tasks' = [tasks EXCEPT ![t] = Await("delete", 0, id, TRUE, doc)]
    /\ UNCHANGED <<doc, nextId, s3Sessions, served, acked>>
    /\ UNCHANGED notS3

\* deleteS3Config after the await: 404, or splice and writeSettings; the
\* handler then answers success and leaves s3Sessions as it is
FinishDelete(t) ==
    /\ tasks[t].pc = "await" /\ tasks[t].op = "delete"
    /\ LET local == tasks[t].local
           index == FindIndex(local, tasks[t].id)
       IN  IF index = 0
           THEN UNCHANGED <<doc, acked>>
           ELSE /\ doc' = Splice(local, index)
                /\ acked' = [acked EXCEPT !.del = @ \cup {tasks[t].id}]
    /\ tasks' = [tasks EXCEPT ![t] = IdleTask]
    /\ UNCHANGED <<nextId, s3Sessions, served>>
    /\ UNCHANGED notS3

NotServed == 0

\* a process in which every profile id exists and nobody is connected
RegistryInit ==
    /\ doc = [i \in 1..MaxConfigs |-> Profile(i, 0)]
    /\ nextId = MaxConfigs + 1
    /\ s3Sessions = [s \in SessionIds |-> 0]
    /\ tasks = [t \in TaskIds |-> IdleTask]
    /\ served = NotServed
    /\ acked = NoAcks

\* a fresh installation: no settings document yet
SettingsInit ==
    /\ doc = <<>>
    /\ nextId = 1
    /\ s3Sessions = [s \in SessionIds |-> 0]
    /\ tasks = [t \in TaskIds |-> IdleTask]
    /\ served = NotServed
    /\ acked = NoAcks

S3Idle == SettingsInit

RegistryNext ==
    \/ \E t \in HandlerIds, s \in SessionIds, c \in ConfigIds : BeginConnect(t, s, c)
    \/ \E t \in HandlerIds : FinishConnect(t)
    \/ \E s \in SessionIds : Disconnect(s)
    \/ \E t \in HandlerIds, s \in SessionIds : BeginCurrent(t, s)
    \/ \E t \in HandlerIds : FinishCurrent(t)
    \/ \E s \in SessionIds : RequireS3Session(s)
    \/ \E t \in HandlerIds, id \in ConfigIds : BeginDelete(t, id)
    \/ \E t \in HandlerIds : FinishDelete(t)

SettingsNext ==
    \/ \E t \in TaskIds : BeginAdd(t)
    \/ \E t \in TaskIds : FinishAdd(t)
    \/ \E t \in TaskIds, id \in ConfigIds : BeginUpdate(t, id)
    \/ \E t \in TaskIds : FinishUpdate(t)
    \/ \E t \in TaskIds, id \in ConfigIds : BeginDelete(t, id)
    \/ \E t \in TaskIds : FinishDelete(t)

\* C4: in every reachable state the number of distinct config ids live in
\* the connection registry is at most MAX_S3_CONNECTIONS.
C4_LiveWithinCap == Cardinality(Live) <= MAX_S3_CONNECTIONS

\* C5: attach fails with AtLimit exactly when the config is not live in any
\* session and the number of distinct live configs equals the cap: no step
\* binds a session to a config that was not live while the count was at the
\* cap (attaching a config that is already live is always allowed).
C5_AttachAtLimit ==
    [][ \A s \in SessionIds :
            (s3Sessions'[s] # s3Sessions[s] /\ s3Sessions'[s] # 0) =>
                ~(s3Sessions'[s] \notin Live /\ Cardinality(Live) = MAX_S3_CONNECTIONS) ]_vars

\* C6: once the deletion of a profile has been answered with success, no
\* session is bound to its id, and requireS3Session hands out no adapter
\* built from it.
C6_DeletedNotBound ==
    /\ \A s \in SessionIds : s3Sessions[s] \notin (acked.del \ IdsOf(doc))
    /\ served \notin (acked.del \ IdsOf(doc))

\* C7: no acknowledged edit of the config document is lost: every profile
\* whose creation was answered with success is in the document unless its
\* deletion was answered with success too, every profile whose update was
\* answered with success carries the update, and a deleted profile stays
\* deleted.
C7_NoLostEdit ==
    /\ \A id \in acked.add \ acked.del : id \in IdsOf(doc)
    /\ \A id \in acked.upd \ acked.del :
          \A i \in 1..Len(doc) : doc[i].id = id => doc[i].rev = 1
    /\ \A id \in acked.del : id \notin IdsOf(doc)

-----------------------------------------------------------------------------
(* The settings store step by step: readSettings, then fs.writeFile, which *)
(* opens data/settings.json with truncation and writes afterwards.  doc is *)
(* what JSON.parse makes of the file; <<>> stands as well for a file that  *)
(* is missing, empty or no JSON, which readSettings all turns into         *)
(* { s3Configs: [] }.                                                      *)

\* the step-by-step store: the profiles ever added
MaxStored == 2

\* readSettings: the parsed file, the default when fs.readFile or JSON.parse throws
readSettings(file, throws) == IF throws THEN <<>> ELSE file

StoreTask(pc, op, id, local) ==
    [pc |-> pc, op |-> op, session |-> 0, id |-> id, found |-> TRUE, local |-> local]

\* addS3Config, updateS3Config, deleteS3Config: await readSettings()
StoreRead(t, op, id, throws) ==
    /\ tasks[t] = IdleTask
    /\ op = "add" => /\ id = 0
                     /\ nextId + Cardinality({u \in TaskIds : tasks[u].op = "add"}) <= MaxStored
    /\ op # "add" => id # 0
    /\ tasks' = [tasks EXCEPT ![t] = StoreTask("read", op, id, readSettings(doc, throws))]
    /\ UNCHANGED <<doc, nextId, s3Sessions, served, acked>>
    /\ UNCHANGED notS3

\* the settings the operation hands to writeSettings; <<>> with index 0 when
\* the profile is not found
Mutated(op, id, local, fresh) ==
    IF op = "add" THEN Append(local, Profile(fresh, 0))
    ELSE IF FindIndex(local, id) = 0 THEN local
    ELSE IF op = "update" THEN [local EXCEPT ![FindIndex(local, id)] = Profile(id, 1)]
    ELSE Splice(local, FindIndex(local, id))

\* from the return of readSettings to the open of fs.writeFile, which
\* truncates the file; update and delete return early when the id is not found
StoreOpen(t) ==
    /\ tasks[t].pc = "read"
    /\ IF tasks[t].op # "add" /\ FindIndex(tasks[t].local, tasks[t].id) = 0
       THEN /\ tasks' = [tasks EXCEPT ![t] = IdleTask]
            /\ UNCHANGED <<doc, nextId>>
       ELSE /\ tasks' = [tasks EXCEPT ![t] =
                           StoreTask("open", tasks[t].op,
                                     IF tasks[t].op = "add" THEN nextId ELSE tasks[t].id,
                                     Mutated(tasks[t].op, tasks[t].id, tasks[t].local, nextId))]
            /\ doc' = <<>>
            /\ nextId' = IF tasks[t].op = "add" THEN nextId + 1 ELSE nextId
    /\ UNCHANGED <<s3Sessions, served, acked>>
    /\ UNCHANGED notS3

\* fs.writeFile writes and the operation returns.  When another write has
\* landed since this one truncated the file, the bytes of the two mix: the
\* file holds this content or no JSON (garbled)
StoreWrite(t, garbled) ==
    /\ tasks[t].pc = "open"
    /\ garbled => doc # <<>>
    /\ doc' = IF garbled THEN <<>> ELSE tasks[t].local
    /\ acked' = IF tasks[t].op = "add" THEN [acked EXCEPT !.add = @ \cup {tasks[t].id}]
                ELSE IF tasks[t].op = "update" THEN [acked EXCEPT !.upd = @ \cup {tasks[t].id}]
                ELSE [acked EXCEPT !.del = @ \cup {tasks[t].id}]
    /\ tasks' = [tasks EXCEPT ![t] = IdleTask]
    /\ UNCHANGED <<nextId, s3Sessions, served>>
    /\ UNCHANGED notS3

StoreNext ==
    \/ \E t \in TaskIds : \E throws \in BOOLEAN :
          \/ StoreRead(t, "add", 0, throws)
          \/ \E id \in 1..MaxStored : \E op \in {"update", "delete"} : StoreRead(t, op, id, throws)
    \/ \E t \in TaskIds : StoreOpen(t)
    \/ \E t \in TaskIds : \E garbled \in BOOLEAN : StoreWrite(t, garbled)

\* C30: an add, update or delete changes only the profile it targets: every
\* other profile stored when the operation starts to write is, unchanged, in
\* the settings it writes.
C30_OnlyTargetChanges ==
    [][ \A t \in TaskIds :
          (StoreOpen(t) /\ tasks'[t].pc = "open")
          => \A i \in 1..Len(doc) :
                doc[i].id # tasks'[t].id
                => \E j \in 1..Len(tasks'[t].local) : tasks'[t].local[j] = doc[i] ]_vars

-----------------------------------------------------------------------------
(* Local trash and restore: POST /api/trash and POST /api/trash/restore    *)
(* over a host file system that the requests change. A handler runs from   *)
(* one file-system await to the next; handlers of concurrent requests      *)
(* interleave at those awaits.                                             *)

nN == <<"n">>
nRC == TRASH_NAME \o <<"r", "c">>
META_NAME == <<DOT, "m", "e", "t", "a">>
JSON_EXT == <<DOT, "j", "s", "o", "n">>
ITEM == <<"i", "t", "e", "m">>
DASH == "-"

\* the entries of the disk: directories, and regular files with their content
Dir == [type |-> "dir"]
File(text, size) == [type |-> "file", size |-> size, data |-> [text |-> text]]

IsDirectory(d, p) == p = <<>> \/ (p \in DOMAIN d /\ d[p].type = "dir")

\* the tree fs.realpath walks on disk d
HostOf(d) ==
    [dirs |-> {<<>>} \cup {p \in DOMAIN d : d[p].type = "dir"},
     files |-> {p \in DOMAIN d : d[p].type = "file"}]

\* the entry at p and everything below it
Subtree(d, p) == {q \in DOMAIN d : IsPrefix(p, q)}

\* q, which lies at or below from, carried over to the same place below to
Rebase(q, from, to) == to \o SubSeq(q, Len(from) + 1, Len(q))

\* fs.rename(from, to) throws: ENOENT, ENOTDIR, EINVAL, EISDIR, ENOTEMPTY
renameFails(d, from, to) ==
    \/ from \notin DOMAIN d
    \/ ~IsDirectory(d, Front(to))
    \/ (IsPrefix(from, to) /\ from # to)
    \/ /\ to \in DOMAIN d
       /\ to # from
       /\ \/ d[from].type # d[to].type
          \/ (d[to].type = "dir" /\ Subtree(d, to) # {to})

\* fs.rename(from, to): the entry and all below it move, replacing what was at to
rename(d, from, to) ==
    LET moved == Subtree(d, from)
        kept == DOMAIN d \ (moved \cup Subtree(d, to))
    IN  [q \in kept \cup {Rebase(x, from, to) : x \in moved} |->
            IF IsPrefix(to, q) THEN d[Rebase(q, to, from)] ELSE d[q]]

\* fs.mkdir(p, { recursive: true }) throws when a regular file is in the way
mkdirFails(d, p) ==
    \E k \in 1..Len(p) : SubSeq(p, 1, k) \in DOMAIN d /\ d[SubSeq(p, 1, k)].type = "file"

mkdir(d, p) ==
    [q \in DOMAIN d \cup {SubSeq(p, 1, k) : k \in 1..Len(p)} |->
        IF q \in DOMAIN d THEN d[q] ELSE Dir]

\* fs.writeFile(p, data) throws: ENOENT, EISDIR
writeFileFails(d, p) == ~IsDirectory(d, Front(p)) \/ (p \in DOMAIN d /\ d[p].type = "dir")

writeFile(d, p, data) ==
    [q \in DOMAIN d \cup {p} |-> IF q = p THEN [type |-> "file", size |-> 1, data |-> data] ELSE d[q]]

\* fs.unlink(p) throws: ENOENT, EISDIR
unlinkFails(d, p) == p \notin DOMAIN d \/ d[p].type = "dir"

unlink(d, p) == [q \in DOMAIN d \ {p} |-> d[q]]

\* pathExists: fs.stat succeeds
pathExists(d, target) == target = <<>> \/ target \in DOMAIN d

\* String(n): the decimal digits of n
RECURSIVE Decimal(_)
Decimal(n) ==
    IF n < 10 THEN <<DigitChars[n + 1]>>
    ELSE Append(Decimal(n \div 10), DigitChars[(n % 10) + 1])

canWrite(role) == role # "read-only"

getTrashPaths(rootReal) ==
    LET paths(trashDir) == [trashDir |-> trashDir, metaDir |-> PathJoin(trashDir, META_NAME)]
    IN  paths(PathJoin(rootReal, TRASH_NAME))

\* the sidecar <metaDir>/<id>.json
sidecarPath(metaDir, id) == SegmentsOf(PathJoin(metaDir, id \o JSON_EXT))

\* readTrashRecord: null (a record without id) when the sidecar cannot be
\* read or parsed, or lacks id, trashName or originalPath
NoRecord == [id |-> <<>>]

readTrashRecord(d, metaDir, id) ==
    LET parsed(p) ==
            IF p \notin DOMAIN d \/ d[p].type # "file" THEN NoRecord
            ELSE IF ~({"id", "trashName", "originalPath"} \subseteq DOMAIN d[p].data)
            THEN NoRecord
            ELSE IF <<>> \in {d[p].data.id, d[p].data.trashName, d[p].data.originalPath}
            THEN NoRecord
            ELSE d[p].data
    IN  parsed(sidecarPath(metaDir, id))

\* the configured users (loadUsers): an admin on FILE_ROOT, a read-write and
\* a read-only user on a directory below it
USERS ==
    { [user |-> "admin", role |-> "admin", rootReal |-> PathOf(<<nD>>)],
      [user |-> "u", role |-> "read-write", rootReal |-> PathOf(<<nD, nU>>)],
      [user |-> "v", role |-> "read-only", rootReal |-> PathOf(<<nD, nU>>)] }

\* no handler in progress
IdleHandler == [pc |-> "idle"]

NoReply == [task |-> 0, user |-> "", op |-> "", status |-> 0, error |-> "", id |-> <<>>]

\* the response a handler sends
Answer(t, s, op, status, error, id) ==
    reply' = [task |-> t, user |-> s.user, op |-> op, status |-> status,
              error |-> error, id |-> id]

\* handler t goes on as h; a restore that began in the case of the round trip
\* and ran alone so far (alone) no longer does
Proceed(t, h) ==
    handlers' = [x \in TaskIds |->
                    IF x = t THEN h
                    ELSE IF "alone" \in DOMAIN handlers[x]
                         THEN [handlers[x] EXCEPT !.alone = FALSE]
                         ELSE handlers[x]]

\* a request is taken up by the first handler slot that is free, once the
\* response before it is out
Free(t) ==
    /\ reply = NoReply
    /\ handlers[t].pc = "idle"
    /\ \A x \in TaskIds : x < t => handlers[x].pc # "idle"

\* the paths a session asks to trash: its root and every entry below it, the
\* entries of its trash directory among them
TrashRequests(s) ==
    LET r == SegmentsOf(s.rootReal)
    IN  {PathOf(Rebase(h, r, <<>>)) : h \in {x \in DOMAIN disk : IsPrefix(r, x)}}

TrashInit ==
    /\ disk = [p \in { <<nD>>, <<nD, nU>>, <<nD, nU, nA>>, <<nD, nU, nA, nB>>,
                        <<nD, nU, nN>>, <<nD, nU, nRC>> } |->
                 IF p \in { <<nD>>, <<nD, nU>>, <<nD, nU, nA>> } THEN Dir
                 ELSE IF p = <<nD, nU, nN>> THEN File("hello", 5)
                 ELSE File("x", 1)]
    /\ handlers = [t \in TaskIds |-> IdleHandler]
    /\ reply = NoReply
    /\ uuid = 1
    /\ trashed = <<>>

TrashIdle == TrashInit

\* a user root that holds one file
TrashRaceInit ==
    /\ disk = [p \in { <<nD>>, <<nD, nU>>, <<nD, nU, nN>> } |->
                 IF p = <<nD, nU, nN>> THEN File("hello", 5) ELSE Dir]
    /\ handlers = [t \in TaskIds |-> IdleHandler]
    /\ reply = NoReply
    /\ uuid = 1
    /\ trashed = <<>>

\* the session of a user
SessionOf(user) == CHOOSE s \in USERS : s.user = user

\* the case of the round trip: a session of the root that trashed the entry
\* under id asks to restore it, no other request is in progress, the item and
\* its sidecar are as the trash request left them, the parent of the original
\* path exists and nothing is at the original path
RoundTripCase(user, id) ==
    /\ id \in DOMAIN trashed
    /\ LET r == trashed[id]
           s == SessionOf(user)
       IN  /\ s.rootReal = r.rootReal
           /\ canWrite(s.role)
           /\ \A x \in TaskIds : handlers[x].pc = "idle"
           /\ r.sidecar \in DOMAIN disk
           /\ Subtree(disk, r.trashPath) = {r.trashPath \o q : q \in DOMAIN r.moved}
           /\ \A q \in DOMAIN r.moved : disk[r.trashPath \o q] = r.moved[q]
           /\ IsDirectory(disk, Front(r.fullPath))
           /\ r.fullPath \notin DOMAIN disk

\* POST /api/trash with body { path: p } up to the rename: role check,
\* resolveSafePath, the root is refused, fs.stat, ensureTrashDirs, the id and
\* the trash name are made up
BeginTrash(t, s) ==
    /\ Free(t)
    /\ uuid <= MaxTrashed
    /\ UNCHANGED <<trashed, notTrash>>
    /\ IF ~canWrite(s.role)
       THEN /\ Answer(t, s, "trash", 403, "Read-only account.", <<>>)
            /\ Proceed(t, IdleHandler)
            /\ UNCHANGED <<disk, uuid>>
       ELSE
       \E p \in TrashRequests(s) :
           LET refuse(status, error) ==
                   /\ Answer(t, s, "trash", status, error, <<>>)
                   /\ Proceed(t, IdleHandler)
                   /\ UNCHANGED <<disk, uuid>>
               named(clean) == IF clean = <<>> THEN ITEM ELSE clean
               move(resolved, paths, fullPath, id, fileName, trashName) ==
                   /\ disk' = mkdir(disk, SegmentsOf(paths.metaDir))
                   /\ uuid' = uuid + 1
                   /\ Proceed(t, [pc |-> "trash:rename", session |-> s, fullPath |-> fullPath,
                                  trashPath |-> SegmentsOf(PathJoin(paths.trashDir, trashName)),
                                  sidecar |-> sidecarPath(paths.metaDir, id),
                                  record |->
                                      [id |-> id, name |-> fileName,
                                       originalPath |-> resolved.normalized,
                                       deletedAt |-> now,
                                       type |-> IF disk[fullPath].type = "dir"
                                                THEN "dir" ELSE "file",
                                       size |-> IF disk[fullPath].type = "file"
                                                THEN disk[fullPath].size ELSE 0,
                                       trashName |-> trashName]])
                   /\ UNCHANGED reply
               item(resolved, paths, id, fileName) ==
                   move(resolved, paths, SegmentsOf(resolved.fullPath), id, fileName,
                        Decimal(now) \o <<DASH>> \o fileName \o <<DASH>> \o id)
               handle(resolved, paths) ==
                   IF ~resolved.ok THEN refuse(404, "Path not found.")
                   ELSE IF resolved.normalized = <<SLASH>>
                   THEN refuse(400, "Cannot delete the root.")
                   ELSE IF mkdirFails(disk, SegmentsOf(paths.metaDir))
                   THEN refuse(500, "Internal server error.")
                   ELSE item(resolved, paths, Decimal(uuid),
                             named(sanitizeName(basename(resolved.fullPath))))
           IN  handle(resolveSafePath(p, s.rootReal, links, HostOf(disk)),
                      getTrashPaths(s.rootReal))

\* POST /api/trash: await fs.rename(resolved.fullPath, trashPath)
TrashRename(t) ==
    LET h == handlers[t]
    IN  /\ h.pc = "trash:rename"
        /\ reply = NoReply
        /\ UNCHANGED <<uuid, trashed, notTrash>>
        /\ IF renameFails(disk, h.fullPath, h.trashPath)
           THEN /\ Answer(t, h.session, "trash", 500, "Internal server error.", <<>>)
                /\ Proceed(t, IdleHandler)
                /\ UNCHANGED disk
           ELSE /\ disk' = rename(disk, h.fullPath, h.trashPath)
                /\ Proceed(t, [h EXCEPT !.pc = "trash:write"]
                                @@ [moved |-> [q \in {Rebase(x, h.fullPath, <<>>) :
                                                        x \in Subtree(disk, h.fullPath)} |->
                                                  disk[h.fullPath \o q]]])
                /\ UNCHANGED reply

\* POST /api/trash: await fs.writeFile(<metaDir>/<id>.json, record), the answer
TrashWrite(t) ==
    LET h == handlers[t]
    IN  /\ h.pc = "trash:write"
        /\ reply = NoReply
        /\ UNCHANGED <<uuid, notTrash>>
        /\ Proceed(t, IdleHandler)
        /\ IF writeFileFails(disk, h.sidecar)
           THEN /\ Answer(t, h.session, "trash", 500, "Internal server error.", <<>>)
                /\ UNCHANGED <<disk, trashed>>
           ELSE /\ disk' = writeFile(disk, h.sidecar, h.record)
                /\ Answer(t, h.session, "trash", 200, "", h.record.id)
                /\ trashed' = [i \in DOMAIN trashed \cup {h.record.id} |->
                                  IF i = h.record.id
                                  THEN [rootReal |-> h.session.rootReal,
                                        originalPath |-> h.record.originalPath,
                                        fullPath |-> h.fullPath,
                                        trashPath |-> h.trashPath,
                                        sidecar |-> h.sidecar,
                                        moved |-> h.moved]
                                  ELSE trashed[i]]

\* POST /api/trash/restore up to the rename: role check, ensureTrashDirs,
\* readTrashRecord, the original path is checked, its parent resolved, the
\* destination and the trash item are looked up
BeginRestore(t, s, id) ==
    /\ Free(t)
    /\ UNCHANGED <<uuid, trashed, notTrash>>
    /\ IF ~canWrite(s.role)
       THEN /\ Answer(t, s, "restore", 403, "Read-only account.", id)
            /\ Proceed(t, IdleHandler)
            /\ UNCHANGED disk
       ELSE
       LET refuse(status, error) ==
               /\ Answer(t, s, "restore", status, error, id)
               /\ Proceed(t, IdleHandler)
           restore(paths, made, record, normalized, parent, destPath, trashPath) ==
               /\ disk' = made
               /\ IF record = NoRecord
                  THEN refuse(404, "Trash record not found.")
                  ELSE IF normalized = <<SLASH>> \/ StartsWith(normalized, TRASH_PATH)
                  THEN refuse(400, "Invalid restore path.")
                  ELSE IF ~parent.ok
                  THEN refuse(409, "Restore location no longer exists.")
                  ELSE IF pathExists(made, destPath)
                  THEN refuse(409, "Restore target already exists.")
                  ELSE IF ~pathExists(made, trashPath)
                  THEN refuse(404, "Trash item not found.")
                  ELSE /\ Proceed(t, [pc |-> "restore:rename", session |-> s, id |-> id,
                                      trashPath |-> trashPath, destPath |-> destPath,
                                      sidecar |-> sidecarPath(paths.metaDir, record.id),
                                      alone |-> RoundTripCase(s.user, id)])
                       /\ UNCHANGED reply
           located(paths, made, record, normalized, parent) ==
               restore(paths, made, record, normalized, parent,
                       SegmentsOf(PathJoin(parent.fullPath, basename(normalized))),
                       SegmentsOf(PathJoin(paths.trashDir, record.trashName)))
           original(paths, made, record, normalized) ==
               located(paths, made, record, normalized,
                       resolveSafePath(dirname(normalized), s.rootReal, links, HostOf(made)))
           read(paths, made, record) ==
               original(paths, made, record, normalizeRequestPath(record.originalPath))
           ensured(paths, made) == read(paths, made, readTrashRecord(made, paths.metaDir, id))
           begun(paths) ==
               IF mkdirFails(disk, SegmentsOf(paths.metaDir))
               THEN /\ refuse(500, "Internal server error.")
                    /\ UNCHANGED disk
               ELSE ensured(paths, mkdir(disk, SegmentsOf(paths.metaDir)))
       IN  begun(getTrashPaths(s.rootReal))

\* POST /api/trash/restore: await fs.rename(trashPath, destPath)
RestoreRename(t) ==
    LET h == handlers[t]
    IN  /\ h.pc = "restore:rename"
        /\ reply = NoReply
        /\ UNCHANGED <<uuid, trashed, notTrash>>
        /\ IF renameFails(disk, h.trashPath, h.destPath)
           THEN /\ Answer(t, h.session, "restore", 500, "Internal server error.", h.id)
                /\ Proceed(t, IdleHandler)
                /\ UNCHANGED disk
           ELSE /\ disk' = rename(disk, h.trashPath, h.destPath)
                /\ Proceed(t, [h EXCEPT !.pc = "restore:unlink"])
                /\ UNCHANGED reply

\* POST /api/trash/restore: await fs.unlink(<metaDir>/<id>.json), the answer
RestoreUnlink(t) ==
    LET h == handlers[t]
    IN  /\ h.pc = "restore:unlink"
        /\ reply = NoReply
        /\ UNCHANGED <<uuid, trashed, notTrash>>
        /\ Proceed(t, IdleHandler)
        /\ IF unlinkFails(disk, h.sidecar)
           THEN /\ Answer(t, h.session, "restore", 500, "Internal server error.", h.id)
                /\ UNCHANGED disk
           ELSE /\ disk' = unlink(disk, h.sidecar)
                /\ Answer(t, h.session, "restore", 200, "", h.id)

-----------------------------------------------------------------------------
(* Creating entries: POST /api/mkdir and POST /api/upload (one file).      *)

\* fs.mkdir(p) throws: EEXIST, ENOENT, ENOTDIR
mkdirOneFails(d, p) == p \in DOMAIN d \/ ~IsDirectory(d, Front(p))

mkdirOne(d, p) == [q \in DOMAIN d \cup {p} |-> IF q = p THEN Dir ELSE d[q]]

\* Bun.write(p, file) throws when p is a directory or lies below a regular file
bunWriteFails(d, p) ==
    \/ (p \in DOMAIN d /\ d[p].type = "dir")
    \/ mkdirFails(d, Front(p))

\* Bun.write(p, file): the missing directories on the way are made, the file
\* is created or replaced
bunWrite(d, p, file) ==
    LET put(made) == [q \in DOMAIN made \cup {p} |-> IF q = p THEN file ELSE made[q]]
    IN  put(mkdir(d, Front(p)))

\* the file a request uploads
UPLOADED == File("new", 3)

\* POST /api/mkdir with body { path: parentPath, name: rawName } up to fs.mkdir
BeginMkdir(t, s, parentPath, rawName) ==
    /\ Free(t)
    /\ UNCHANGED <<disk, uuid, trashed, notTrash>>
    /\ LET refuse(status, error) ==
               /\ Answer(t, s, "mkdir", status, error, <<>>)
               /\ Proceed(t, IdleHandler)
           create(fullPath) ==
               IF ~isWithinRoot(fullPath, s.rootReal) THEN refuse(400, "Invalid path.")
               ELSE IF pathExists(disk, SegmentsOf(fullPath))
               THEN refuse(409, "Folder already exists.")
               ELSE /\ Proceed(t, [pc |-> "mkdir:write", session |-> s,
                                   fullPath |-> SegmentsOf(fullPath)])
                    /\ UNCHANGED reply
           handle(name, parent) ==
               IF ~canWrite(s.role) THEN refuse(403, "Read-only account.")
               ELSE IF name = <<>> THEN refuse(400, "Folder name is required.")
               ELSE IF ~parent.ok THEN refuse(404, "Parent path not found.")
               ELSE IF ~IsDirectory(disk, SegmentsOf(parent.fullPath))
               THEN refuse(400, "Parent path is not a directory.")
               ELSE create(PathJoin(parent.fullPath, name))
       IN  handle(sanitizeName(rawName),
                  resolveSafePath(parentPath, s.rootReal, links, HostOf(disk)))

\* POST /api/mkdir: await fs.mkdir(fullPath), the answer
FinishMkdir(t) ==
    LET h == handlers[t]
    IN  /\ h.pc = "mkdir:write"
        /\ reply = NoReply
        /\ UNCHANGED <<uuid, trashed, notTrash>>
        /\ Proceed(t, IdleHandler)
        /\ IF mkdirOneFails(disk, h.fullPath)
           THEN /\ Answer(t, h.session, "mkdir", 500, "Internal server error.", <<>>)
                /\ UNCHANGED disk
           ELSE /\ disk' = mkdirOne(disk, h.fullPath)
                /\ Answer(t, h.session, "mkdir", 200, "", <<>>)

\* POST /api/upload with form fields path, overwrite and one file named
\* rawName, up to Bun.write
BeginUpload(t, s, targetPath, rawName, overwrite) ==
    /\ Free(t)
    /\ UNCHANGED <<disk, uuid, trashed, notTrash>>
    /\ LET refuse(status, error) ==
               /\ Answer(t, s, "upload", status, error, <<>>)
               /\ Proceed(t, IdleHandler)
           store(destPath) ==
               IF ~isWithinRoot(destPath, s.rootReal) THEN refuse(400, "Invalid file path.")
               ELSE IF ~overwrite /\ pathExists(disk, SegmentsOf(destPath))
               THEN refuse(409, "File exists")
               ELSE /\ Proceed(t, [pc |-> "upload:write", session |-> s,
                                   destPath |-> SegmentsOf(destPath)])
                    /\ UNCHANGED reply
           handle(resolved, fileName) ==
               IF ~canWrite(s.role) THEN refuse(403, "Read-only account.")
               ELSE IF ~resolved.ok THEN refuse(404, "Path not found.")
               ELSE IF ~IsDirectory(disk, SegmentsOf(resolved.fullPath))
               THEN refuse(400, "Path is not a directory.")
               ELSE IF fileName = <<>> THEN refuse(400, "Invalid file name.")
               ELSE store(PathJoin(resolved.fullPath, fileName))
       IN  handle(resolveSafePath(targetPath, s.rootReal, links, HostOf(disk)),
                  sanitizeName(rawName))

\* POST /api/upload: await Bun.write(destPath, file), the answer
FinishUpload(t) ==
    LET h == handlers[t]
    IN  /\ h.pc = "upload:write"
        /\ reply = NoReply
        /\ UNCHANGED <<uuid, trashed, notTrash>>
        /\ Proceed(t, IdleHandler)
        /\ IF bunWriteFails(disk, h.destPath)
           THEN /\ Answer(t, h.session, "upload", 500, "Internal server error.", <<>>)
                /\ UNCHANGED disk
           ELSE /\ disk' = bunWrite(disk, h.destPath, UPLOADED)
                /\ Answer(t, h.session, "upload", 200, "", <<>>)

\* fs.mkdir(p) throws: EEXIST, ENOENT, ENOTDIR;  fs.copyFile(from, to) throws:
\* ENOENT, ENOTDIR, EISDIR.  copyPath throws when its first call does: the
\* entries below a directory go into the directory it has just made
copyPathFails(d, from, to) ==
    \/ from \notin DOMAIN d
    \/ ~IsDirectory(d, Front(to))
    \/ d[from].type = "dir" /\ to \in DOMAIN d
    \/ d[from].type = "file" /\ to \in DOMAIN d /\ d[to].type = "dir"

\* copyPath(source, destination): a file is copied over what is at the
\* destination, a directory is made anew and filled with copies of all below it
copyPath(d, from, to) ==
    LET copied == {Rebase(x, from, to) : x \in Subtree(d, from)}
    IN  [q \in DOMAIN d \cup copied |->
            IF q \in copied THEN d[Rebase(q, to, from)] ELSE d[q]]

\* POST /api/move with body { from, to }, up to fs.rename
BeginMove(t, s, from, to) ==
    /\ Free(t)
    /\ UNCHANGED <<disk, uuid, trashed, notTrash>>
    /\ LET refuse(status, error) ==
               /\ Answer(t, s, "move", status, error, <<>>)
               /\ Proceed(t, IdleHandler)
           place(fromFull, destFull) ==
               IF ~isWithinRoot(destFull, s.rootReal)
               THEN refuse(400, "Destination path is invalid.")
               ELSE IF destFull = fromFull THEN refuse(400, "Destination matches source.")
               ELSE IF pathExists(disk, SegmentsOf(destFull))
               THEN refuse(409, "Destination already exists.")
               ELSE IF StartsWith(destFull, fromFull \o <<SLASH>>)
               THEN refuse(400, "Cannot move a folder into itself.")
               ELSE /\ Proceed(t, [pc |-> "move:rename", session |-> s,
                                   from |-> SegmentsOf(fromFull),
                                   to |-> SegmentsOf(destFull)])
                    /\ UNCHANGED reply
           target(fromResolved, dest) ==
               IF ~dest.ok
               THEN IF dest.err = "null" THEN refuse(400, "Destination path is invalid.")
                    ELSE refuse(500, "Internal server error.")
               ELSE place(fromResolved.fullPath, dest.fullPath)
           handle(fromResolved) ==
               IF ~canWrite(s.role) THEN refuse(403, "Read-only account.")
               ELSE IF ~fromResolved.ok THEN refuse(404, "Source path not found.")
               ELSE IF fromResolved.normalized = <<SLASH>>
               THEN refuse(400, "Cannot move the root.")
               ELSE target(fromResolved,
                           resolveDestinationPath(to, s.rootReal, links, HostOf(disk)))
       IN  handle(resolveSafePath(from, s.rootReal, links, HostOf(disk)))

\* POST /api/move: await fs.rename(fromResolved.fullPath, dest.fullPath), the answer
FinishMove(t) ==
    LET h == handlers[t]
    IN  /\ h.pc = "move:rename"
        /\ reply = NoReply
        /\ UNCHANGED <<uuid, trashed, notTrash>>
        /\ Proceed(t, IdleHandler)
        /\ IF renameFails(disk, h.from, h.to)
           THEN /\ Answer(t, h.session, "move", 500, "Internal server error.", <<>>)
                /\ UNCHANGED disk
           ELSE /\ disk' = rename(disk, h.from, h.to)
                /\ Answer(t, h.session, "move", 200, "", <<>>)

\* POST /api/copy with body { from, to }, up to copyPath
BeginCopy(t, s, from, to) ==
    /\ Free(t)
    /\ UNCHANGED <<disk, uuid, trashed, notTrash>>
    /\ LET refuse(status, error) ==
               /\ Answer(t, s, "copy", status, error, <<>>)
               /\ Proceed(t, IdleHandler)
           place(fromFull, destFull) ==
               IF pathExists(disk, SegmentsOf(destFull))
               THEN refuse(409, "Destination already exists.")
               ELSE IF StartsWith(destFull, fromFull \o <<SLASH>>)
               THEN refuse(400, "Cannot copy a folder into itself.")
               ELSE /\ Proceed(t, [pc |-> "copy:copyPath", session |-> s,
                                   from |-> SegmentsOf(fromFull),
                                   to |-> SegmentsOf(destFull)])
                    /\ UNCHANGED reply
           target(fromResolved, dest) ==
               IF ~dest.ok
               THEN IF dest.err = "null" THEN refuse(400, "Destination path is invalid.")
                    ELSE refuse(500, "Internal server error.")
               ELSE place(fromResolved.fullPath, dest.fullPath)
           handle(fromResolved) ==
               IF ~canWrite(s.role) THEN refuse(403, "Read-only account.")
               ELSE IF ~fromResolved.ok THEN refuse(404, "Source path not found.")
               ELSE target(fromResolved,
                           resolveDestinationPath(to, s.rootReal, links, HostOf(disk)))
       IN  handle(resolveSafePath(from, s.rootReal, links, HostOf(disk)))

\* POST /api/copy: await copyPath(fromResolved.fullPath, dest.fullPath), the answer
FinishCopy(t) ==
    LET h == handlers[t]
    IN  /\ h.pc = "copy:copyPath"
        /\ reply = NoReply
        /\ UNCHANGED <<uuid, trashed, notTrash>>
        /\ Proceed(t, IdleHandler)
        /\ IF copyPathFails(disk, h.from, h.to)
           THEN /\ Answer(t, h.session, "copy", 500, "Internal server error.", <<>>)
                /\ UNCHANGED disk
           ELSE /\ disk' = copyPath(disk, h.from, h.to)
                /\ Answer(t, h.session, "copy", 200, "", <<>>)

MAX_EDIT_BYTES == 1024 * 1024

TEXT_EDIT_EXTS ==
    { <<DOT, "t", "x", "t">>, <<DOT, "p", "h", "p">>, <<DOT, "m", "d">>,
      <<DOT, "m", "a", "r", "k", "d", "o", "w", "n">>, <<DOT, "h", "t", "m", "l">>,
      <<DOT, "h", "t", "m">>, <<DOT, "c", "s", "s">>, <<DOT, "s", "c", "s", "s">>,
      <<DOT, "l", "e", "s", "s">>, <<DOT, "j", "s">>, <<DOT, "j", "s", "x">>,
      <<DOT, "t", "s">>, <<DOT, "t", "s", "x">>, <<DOT, "j", "s", "o", "n">>,
      <<DOT, "y", "m", "l">>, <<DOT, "y", "a", "m", "l">>, <<DOT, "x", "m", "l">>,
      <<DOT, "s", "v", "g">> }

\* path.extname of a file name: from its last "." on, unless that is its
\* first character or there is none
extname(name) ==
    LET dots == {i \in 2..Len(name) : name[i] = DOT}
        last(i) == SubSeq(name, i, Len(name))
    IN  IF dots = {} THEN <<>>
        ELSE last(CHOOSE i \in dots : \A j \in dots : j <= i)

\* isTextEditable(filePath); the names of the model have no upper case
isTextEditable(p) == p # <<>> /\ extname(p[Len(p)]) \in TEXT_EDIT_EXTS

\* POST /api/edit with body { path, content }, up to fs.writeFile
BeginEdit(t, s, bodyPath, content) ==
    /\ Free(t)
    /\ UNCHANGED <<disk, uuid, trashed, notTrash>>
    /\ LET refuse(status, error) ==
               /\ Answer(t, s, "edit", status, error, <<>>)
               /\ Proceed(t, IdleHandler)
           save(fullPath) ==
               IF fullPath \notin DOMAIN disk \/ disk[fullPath].type # "file"
               THEN refuse(400, "Path is not a file.")
               ELSE IF ~isTextEditable(fullPath)
               THEN refuse(400, "Editor not available for this file type.")
               ELSE IF content.size > MAX_EDIT_BYTES
               THEN refuse(413, "File is too large to save.")
               ELSE /\ Proceed(t, [pc |-> "edit:write", session |-> s,
                                   fullPath |-> fullPath, content |-> content])
                    /\ UNCHANGED reply
           handle(resolved) ==
               IF ~canWrite(s.role) THEN refuse(403, "Read-only account.")
               ELSE IF bodyPath = <<>> THEN refuse(400, "Path is required.")
               ELSE IF ~resolved.ok THEN refuse(404, "Path not found.")
               ELSE save(SegmentsOf(resolved.fullPath))
       IN  handle(resolveSafePath(bodyPath, s.rootReal, links, HostOf(disk)))

\* POST /api/edit: await fs.writeFile(resolved.fullPath, body.content), the answer
FinishEdit(t) ==
    LET h == handlers[t]
    IN  /\ h.pc = "edit:write"
        /\ reply = NoReply
        /\ UNCHANGED <<uuid, trashed, notTrash>>
        /\ Proceed(t, IdleHandler)
        /\ IF writeFileFails(disk, h.fullPath)
           THEN /\ Answer(t, h.session, "edit", 500, "Internal server error.", <<>>)
                /\ UNCHANGED disk
           ELSE /\ disk' = [q \in DOMAIN disk |->
                               IF q = h.fullPath
                               THEN [type |-> "file", size |-> h.content.size,
                                     data |-> [text |-> h.content.text]]
                               ELSE disk[q]]
                /\ Answer(t, h.session, "edit", 200, "", <<>>)

\* the routes under /api/s3/configs: list, get, add, update, delete, test
S3ConfigOps ==
    {"s3config:list", "s3config:get", "s3config:add", "s3config:update",
     "s3config:delete", "s3config:test"}

\* the first lines of every route under /api/s3/configs, for a session that
\* is not the administrator's
S3ConfigRefused(t, s, op) ==
    /\ Free(t)
    /\ s.role # "admin"
    /\ Answer(t, s, op, 401, "Unauthorized", <<>>)
    /\ Proceed(t, IdleHandler)
    /\ UNCHANGED <<disk, uuid, trashed, notTrash>>

-----------------------------------------------------------------------------
(* Specifications of trash and restore.                                   *)

\* the response is on its way; the next step of any handler follows
TrashRespond ==
    /\ reply # NoReply
    /\ reply' = NoReply
    /\ UNCHANGED <<disk, handlers, uuid, trashed, notTrash>>

\* the ids a restore request names
RestoreIds == {Decimal(i) : i \in 1..MaxTrashed}

\* requests served one after the other
TrashNext ==
    \/ \E t \in HandlerIds :
        \/ \E s \in USERS : BeginTrash(t, s)
        \/ TrashRename(t)
        \/ TrashWrite(t)
        \/ \E s \in USERS : \E id \in RestoreIds : BeginRestore(t, s, id)
        \/ RestoreRename(t)
        \/ RestoreUnlink(t)
    \/ TrashRespond

\* concurrent requests: their handlers interleave at the awaits
TrashRaceNext ==
    \/ \E t \in TaskIds :
        \/ \E s \in USERS : BeginTrash(t, s)
        \/ TrashRename(t)
        \/ TrashWrite(t)
        \/ \E s \in USERS : \E id \in RestoreIds : BeginRestore(t, s, id)
        \/ RestoreRename(t)
        \/ RestoreUnlink(t)
    \/ TrashRespond

\* the readable sidecars in the trash of root r
SidecarsOf(d, r) ==
    LET paths == getTrashPaths(r)
        metaDir == SegmentsOf(paths.metaDir)
    IN  {p \in DOMAIN d :
            /\ Front(p) = metaDir
            /\ EndsWith(p[Len(p)], JSON_EXT)
            /\ d[p].type = "file"
            /\ {"id", "trashName", "originalPath"} \subseteq DOMAIN d[p].data}

\* where the trash item of the sidecar at p lies
ItemOf(d, r, p) == SegmentsOf(PathJoin(getTrashPaths(r).trashDir, d[p].data.trashName))

\* C8: in every reachable state, under any interleaving of trash and restore
\* requests, every sidecar <id>.json in <rootReal>/.trash/.meta has its
\* physical item at <rootReal>/.trash/<trashName>: there is no orphan sidecar.
C8_NoOrphanSidecar ==
    \A s \in USERS : \A p \in SidecarsOf(disk, s.rootReal) :
        ItemOf(disk, s.rootReal, p) \in DOMAIN disk

\* C9: whenever the trash operation writes a sidecar, the physical item its
\* trashName names is in .trash at the moment of the write.
C9_ItemThereWhenSidecarWritten ==
    [][ \A t \in TaskIds :
            (handlers[t].pc = "trash:write" /\ handlers'[t].pc = "idle"
                /\ handlers[t].sidecar \in DOMAIN disk' \ DOMAIN disk) =>
                handlers[t].trashPath \in DOMAIN disk ]_vars

\* the entry trashed under id is back at its place with its content, its
\* sidecar is gone and .trash holds no item for the id
BackInPlace(d, id) ==
    LET r == trashed[id]
    IN  /\ \A q \in DOMAIN r.moved :
              (r.fullPath \o q) \in DOMAIN d /\ d[r.fullPath \o q] = r.moved[q]
        /\ Subtree(d, r.fullPath) = {r.fullPath \o q : q \in DOMAIN r.moved}
        /\ r.sidecar \notin DOMAIN d
        /\ r.trashPath \notin DOMAIN d

\* C10: trashing the entry at p and then restoring the returned id, p's parent
\* still existing and nothing created at p in between, is a round trip: the
\* restore succeeds, the same entry with its content is back at p, the sidecar
\* of the id is gone and .trash holds no item for the id.
C10_TrashRestoreRoundTrip ==
    [][ (reply = NoReply /\ reply' # NoReply /\ reply'.op = "restore"
            /\ reply'.id \in DOMAIN trashed) =>
            LET h == handlers[reply'.task]
                case == IF h.pc = "idle" THEN RoundTripCase(reply'.user, reply'.id)
                        ELSE h.alone
            IN  case => (reply'.status = 200 /\ BackInPlace(disk', reply'.id)) ]_vars

-----------------------------------------------------------------------------
(* File requests of the users of one root, served one after the other.     *)

\* the sessions of the users whose root is /d/u
FileSessions == {s \in USERS : s.rootReal = PathOf(<<nD, nU>>)}

\* the bodies of the mkdir requests: parent path and name
MkdirRequests == { <<PathOf(<<>>), nA>> }

\* the form fields of the upload requests: path and file name
UploadRequests == { <<PathOf(<<>>), nA>>, <<PathOf(<<nA>>), nB>>, <<PathOf(<<>>), nRC>> }

FilesInit ==
    /\ disk = [p \in { <<nD>>, <<nD, nU>>, <<nD, nU, nA>>, <<nD, nU, nA, nB>>,
                        <<nD, nU, nRC>> } |->
                 IF p \in { <<nD>>, <<nD, nU>>, <<nD, nU, nA>> } THEN Dir
                 ELSE File("x", 1)]
    /\ handlers = [t \in TaskIds |-> IdleHandler]
    /\ reply = NoReply
    /\ uuid = 1
    /\ trashed = <<>>

FilesNext ==
    \/ \E t \in HandlerIds :
        \/ \E s \in FileSessions : BeginTrash(t, s)
        \/ TrashRename(t)
        \/ TrashWrite(t)
        \/ \E s \in FileSessions : \E id \in RestoreIds : BeginRestore(t, s, id)
        \/ RestoreRename(t)
        \/ RestoreUnlink(t)
        \/ \E s \in FileSessions : \E r \in MkdirRequests : BeginMkdir(t, s, r[1], r[2])
        \/ FinishMkdir(t)
        \/ \E s \in FileSessions : \E r \in UploadRequests : \E o \in BOOLEAN :
              BeginUpload(t, s, r[1], r[2], o)
        \/ FinishUpload(t)
    \/ TrashRespond

\* the restore of id by user finds the sidecar and the trash item in place
RestoreCase(user, id) ==
    /\ id \in DOMAIN trashed
    /\ SessionOf(user).rootReal = trashed[id].rootReal
    /\ canWrite(SessionOf(user).role)
    /\ readTrashRecord(disk, getTrashPaths(trashed[id].rootReal).metaDir, id) # NoRecord
    /\ trashed[id].trashPath \in DOMAIN disk

\* the directory the entry was trashed from is no longer there
ParentMissing(id) == ~IsDirectory(disk, Front(trashed[id].fullPath))

\* the place the entry was trashed from is taken
Occupied(id) ==
    /\ IsDirectory(disk, Front(trashed[id].fullPath))
    /\ trashed[id].fullPath \in DOMAIN disk

\* C11: a restore whose original parent directory no longer exists is answered
\* with ParentMissing (409, "Restore location no longer exists."), a restore
\* whose original path is occupied is answered with Conflict (409, "Restore
\* target already exists."); no step of such a restore changes the file tree,
\* so the trash item and its sidecar stay and nothing is created or
\* overwritten at the destination.
C11_RestoreRefused ==
    [][ \A t \in TaskIds :
          LET h == IF handlers[t].pc = "idle" THEN handlers'[t] ELSE handlers[t]
              restoring == /\ reply = NoReply
                           /\ \/ reply'.op = "restore" /\ reply'.task = t
                              \/ /\ handlers'[t] # handlers[t]
                                 /\ h.pc \in {"restore:rename", "restore:unlink"}
              user == IF reply' # NoReply THEN reply'.user ELSE h.session.user
              id == IF reply' # NoReply THEN reply'.id ELSE h.id
          IN  (restoring /\ RestoreCase(user, id)) =>
                /\ ParentMissing(id) =>
                     /\ disk' = disk
                     /\ reply' # NoReply =>
                          /\ reply'.status = 409
                          /\ reply'.error = "Restore location no longer exists."
                /\ Occupied(id) =>
                     /\ disk' = disk
                     /\ reply' # NoReply =>
                          /\ reply'.status = 409
                          /\ reply'.error = "Restore target already exists." ]_vars

-----------------------------------------------------------------------------
(* Move, copy, edit and the S3 configuration routes over HTTP.            *)

\* a file the editor opens
nMD == <<"t", DOT, "m", "d">>

\* the bodies of the move and copy requests: from and to
MoveRequests ==
    { <<PathOf(<<nA>>), PathOf(<<nA, nB>>)>>, <<PathOf(<<nA>>), PathOf(<<nA, nA>>)>>,
      <<PathOf(<<nA>>), PathOf(<<nA>>)>>, <<PathOf(<<nA, nB>>), PathOf(<<nB>>)>>,
      <<PathOf(<<nMD>>), PathOf(<<nA, nB>>)>>, <<PathOf(<<nA>>), PathOf(<<nB>>)>> }

\* the bodies of the edit requests: path and content
EditRequests ==
    { <<PathOf(<<nMD>>), [text |-> "edited", size |-> 6]>>,
      <<PathOf(<<nMD>>), [text |-> "long", size |-> MAX_EDIT_BYTES + 1]>>,
      <<PathOf(<<nA, nB>>), [text |-> "edited", size |-> 6]>> }

\* the tree of the move, copy and edit requests: /d/u is the root of the
\* sessions, with the directory a, the files a/b, .trashrc and t.md
OpsInit ==
    /\ disk = [p \in { <<nD>>, <<nD, nU>>, <<nD, nU, nA>>, <<nD, nU, nA, nB>>,
                        <<nD, nU, nRC>>, <<nD, nU, nMD>> } |->
                 IF p \in { <<nD>>, <<nD, nU>>, <<nD, nU, nA>> } THEN Dir
                 ELSE File("x", 1)]
    /\ handlers = [t \in TaskIds |-> IdleHandler]
    /\ reply = NoReply
    /\ uuid = 1
    /\ trashed = <<>>

OpsNext ==
    \/ \E t \in HandlerIds :
        \/ \E s \in FileSessions : \E r \in MkdirRequests : BeginMkdir(t, s, r[1], r[2])
        \/ FinishMkdir(t)
        \/ \E s \in FileSessions : \E r \in UploadRequests : \E o \in BOOLEAN :
              BeginUpload(t, s, r[1], r[2], o)
        \/ FinishUpload(t)
        \/ \E s \in FileSessions : \E r \in MoveRequests : BeginMove(t, s, r[1], r[2])
        \/ FinishMove(t)
        \/ \E s \in FileSessions : \E r \in MoveRequests : BeginCopy(t, s, r[1], r[2])
        \/ FinishCopy(t)
        \/ \E s \in FileSessions : \E r \in EditRequests : BeginEdit(t, s, r[1], r[2])
        \/ FinishEdit(t)
        \/ \E s \in FileSessions : \E op \in S3ConfigOps : S3ConfigRefused(t, s, op)
    \/ TrashRespond

\* the operations that change files or the trash
MutatingOps == {"edit", "upload", "mkdir", "move", "copy", "trash", "restore"}

\* the session's role lacks the capability the operation needs
LacksCapability(s, op) ==
    \/ op \in MutatingOps /\ s.role = "read-only"
    \/ op \in S3ConfigOps /\ s.role # "admin"

\* C14: a request whose role lacks the capability (a mutating operation of a
\* read-only session, an S3 configuration route for a session that is not the
\* administrator's) is answered with status 403 in the step that takes it up,
\* no handler goes on for it, and files, trash and configurations stay as
\* they are.
C14_Forbidden ==
    [][ \A s \in USERS :
          /\ (reply = NoReply /\ reply' # NoReply /\ reply'.user = s.user
                /\ LacksCapability(s, reply'.op))
              => (reply'.status = 403 /\ UNCHANGED <<disk, trashed, s3Vars>>)
          /\ \A t \in TaskIds :
                (handlers'[t].pc # "idle" /\ handlers'[t].session = s)
                => canWrite(s.role) ]_vars

-----------------------------------------------------------------------------
(* The storage adapters.  A call runs alone; what it threw or returned is  *)
(* kept in outcome.                                                        *)

NoOutcome ==
    [adapter |-> "", op |-> "none", ok |-> FALSE, error |-> "", entries |-> <<>>,
     total |-> 0, found |-> FALSE, mode |-> "", status |-> 0, bytes |-> 0]

Outcome(adapter, op, r) ==
    [adapter |-> adapter, op |-> op, ok |-> r.ok, error |-> r.error,
     entries |-> r.entries, total |-> r.total, found |-> r.found, mode |-> "",
     status |-> 0, bytes |-> 0]

\* the call threw error, leaving the storage as store
Thrown(store, error) ==
    [ok |-> FALSE, error |-> error, store |-> store, entries |-> <<>>, total |-> 0,
     found |-> FALSE]

\* the call returned, leaving the storage as store; list returns entries,
\* exists returns found
Returned(store, entries, found) ==
    [ok |-> TRUE, error |-> "", store |-> store, entries |-> entries, total |-> 0,
     found |-> found]

\* list returned the page entries and the count total
Listed(store, entries, total) ==
    [ok |-> TRUE, error |-> "", store |-> store, entries |-> entries, total |-> total,
     found |-> FALSE]

\* an optional number of the options of list: absent, or given with a value
Absent == <<>>
Given(n) == <<n>>

\* the value JavaScript tests as true: given and not 0
Truthy(o) == o # Absent /\ o[1] # 0

\* Array.prototype.slice(start, end) and slice(start), on 0-based indices
Slice(seq, start, end) ==
    SubSeq(seq, (IF start < Len(seq) THEN start ELSE Len(seq)) + 1,
                IF end < Len(seq) THEN end ELSE Len(seq))

AdapterIdle ==
    /\ bucket = <<>>
    /\ outcome = NoOutcome

-----------------------------------------------------------------------------
(* LocalStorageAdapter.                                                    *)

\* destination.split("/").slice(0, -1).join("/")
parentOf(path) == Join(Front(Split(path, SLASH)), SLASH)

\* fs.copyFile(from, to) throws: ENOENT, EISDIR, ENOTDIR
copyFileFails(d, from, to) ==
    \/ from \notin DOMAIN d
    \/ d[from].type = "dir"
    \/ ~IsDirectory(d, Front(to))
    \/ to \in DOMAIN d /\ d[to].type = "dir"

\* fs.copyFile(from, to): what is at to is replaced
copyFile(d, from, to) == [q \in DOMAIN d \cup {to} |-> IF q = to THEN d[from] ELSE d[q]]

\* fs.rm(p, { recursive: true }): the entry and all below it
rm(d, p) == [q \in DOMAIN d \ Subtree(d, p) |-> d[q]]

\* LocalStorageAdapter.move with this.root = rootDir
localMove(d, rootDir, source, destination) ==
    LET renamed(made, srcPath, destPath) ==
            IF renameFails(made, srcPath, destPath) THEN Thrown(made, "rename")
            ELSE Returned(rename(made, srcPath, destPath), <<>>, FALSE)
        prepared(srcPath, destPath, parent) ==
            IF mkdirFails(d, parent) THEN Thrown(d, "mkdir")
            ELSE renamed(mkdir(d, parent), srcPath, destPath)
        resolved(src, dest, parent) ==
            IF ~src.ok \/ ~dest.ok \/ ~parent.ok THEN Thrown(d, "Path traversal detected")
            ELSE prepared(SegmentsOf(src.fullPath), SegmentsOf(dest.fullPath),
                          SegmentsOf(parent.fullPath))
    IN  resolved(resolvePath(source, rootDir), resolvePath(destination, rootDir),
                 resolvePath(parentOf(destination), rootDir))

\* LocalStorageAdapter.copy
localCopy(d, rootDir, source, destination) ==
    LET copied(made, srcPath, destPath) ==
            IF copyFileFails(made, srcPath, destPath) THEN Thrown(made, "copyFile")
            ELSE Returned(copyFile(made, srcPath, destPath), <<>>, FALSE)
        prepared(srcPath, destPath, parent) ==
            IF mkdirFails(d, parent) THEN Thrown(d, "mkdir")
            ELSE copied(mkdir(d, parent), srcPath, destPath)
        resolved(src, dest, parent) ==
            IF ~src.ok \/ ~dest.ok \/ ~parent.ok THEN Thrown(d, "Path traversal detected")
            ELSE prepared(SegmentsOf(src.fullPath), SegmentsOf(dest.fullPath),
                          SegmentsOf(parent.fullPath))
    IN  resolved(resolvePath(source, rootDir), resolvePath(destination, rootDir),
                 resolvePath(parentOf(destination), rootDir))

\* LocalStorageAdapter.write
localWrite(d, rootDir, path, content) ==
    LET written(made, fullPath) ==
            IF writeFileFails(made, fullPath) THEN Thrown(made, "writeFile")
            ELSE Returned([q \in DOMAIN made \cup {fullPath} |->
                              IF q = fullPath THEN content ELSE made[q]], <<>>, FALSE)
        prepared(fullPath, parent) ==
            IF mkdirFails(d, parent) THEN Thrown(d, "mkdir")
            ELSE written(mkdir(d, parent), fullPath)
        resolved(full, parent) ==
            IF ~full.ok \/ ~parent.ok THEN Thrown(d, "Path traversal detected")
            ELSE prepared(SegmentsOf(full.fullPath), SegmentsOf(parent.fullPath))
    IN  resolved(resolvePath(path, rootDir), resolvePath(parentOf(path), rootDir))

\* LocalStorageAdapter.delete
localDelete(d, rootDir, path) ==
    LET removed(fullPath) ==
            IF fullPath \notin DOMAIN d THEN Thrown(d, "rm")
            ELSE Returned(rm(d, fullPath), <<>>, FALSE)
        resolved(full) ==
            IF ~full.ok THEN Thrown(d, "Path traversal detected")
            ELSE removed(SegmentsOf(full.fullPath))
    IN  resolved(resolvePath(path, rootDir))

\* LocalStorageAdapter.mkdir
localMkdir(d, rootDir, path) ==
    LET made(fullPath) ==
            IF mkdirFails(d, fullPath) THEN Thrown(d, "mkdir")
            ELSE Returned(mkdir(d, fullPath), <<>>, FALSE)
        resolved(full) ==
            IF ~full.ok THEN Thrown(d, "Path traversal detected")
            ELSE made(SegmentsOf(full.fullPath))
    IN  resolved(resolvePath(path, rootDir))

\* LocalStorageAdapter.exists
localExists(d, rootDir, path) ==
    LET resolved(full) ==
            IF ~full.ok THEN Thrown(d, "Path traversal detected")
            ELSE Returned(d, <<>>, pathExists(d, SegmentsOf(full.fullPath)))
    IN  resolved(resolvePath(path, rootDir))

\* the root directory the adapter is constructed with
LOCAL_ROOT == PathOf(<<nD, nU>>)

nC == <<"c">>
nF == <<"f">>
nG == <<"g">>

\* the paths the callers of the adapter name
LocalPaths ==
    { PathOf(<<nA>>), PathOf(<<nA, nB>>), PathOf(<<nF>>), PathOf(<<nC, nG>>) }

\* the content written
WRITTEN == File("w", 2)

\* under the root: the directory a, the files a/b and f
LocalInit ==
    /\ disk = [p \in { <<nD>>, <<nD, nU>>, <<nD, nU, nA>>, <<nD, nU, nA, nB>>,
                        <<nD, nU, nF>> } |->
                 IF p \in { <<nD>>, <<nD, nU>>, <<nD, nU, nA>> } THEN Dir
                 ELSE IF p = <<nD, nU, nF>> THEN File("y", 1) ELSE File("x", 1)]
    /\ handlers = [t \in TaskIds |-> IdleHandler]
    /\ reply = NoReply
    /\ uuid = 1
    /\ trashed = <<>>
    /\ bucket = <<>>
    /\ outcome = NoOutcome

\* a call of the local adapter with outcome r
LocalCall(op, r) ==
    /\ \A p \in DOMAIN r.store : Len(p) <= MaxDepth
    /\ disk' = r.store
    /\ outcome' = Outcome("local", op, r)
    /\ UNCHANGED <<handlers, reply, uuid, trashed, bucket>>

LocalMove(source, destination) ==
    /\ LocalCall("move", localMove(disk, LOCAL_ROOT, source, destination))
    /\ UNCHANGED notAdapter

LocalCopy(source, destination) ==
    /\ LocalCall("copy", localCopy(disk, LOCAL_ROOT, source, destination))
    /\ UNCHANGED notAdapter

LocalWrite(path) ==
    /\ LocalCall("write", localWrite(disk, LOCAL_ROOT, path, WRITTEN))
    /\ UNCHANGED notAdapter

LocalDelete(path) ==
    /\ LocalCall("delete", localDelete(disk, LOCAL_ROOT, path))
    /\ UNCHANGED notAdapter

LocalMkdir(path) ==
    /\ LocalCall("mkdir", localMkdir(disk, LOCAL_ROOT, path))
    /\ UNCHANGED notAdapter

LocalExists(path) ==
    /\ LocalCall("exists", localExists(disk, LOCAL_ROOT, path))
    /\ UNCHANGED notAdapter

LocalNext ==
    \/ \E s \in LocalPaths : \E d \in LocalPaths : LocalMove(s, d)
    \/ \E s \in LocalPaths : \E d \in LocalPaths : LocalCopy(s, d)
    \/ \E p \in LocalPaths : LocalWrite(p)
    \/ \E p \in LocalPaths : LocalDelete(p)
    \/ \E p \in LocalPaths : LocalMkdir(p)
    \/ \E p \in LocalPaths : LocalExists(p)

-----------------------------------------------------------------------------
(* S3StorageAdapter: the bucket is a map from keys to objects, the S3      *)
(* service answers as Amazon S3 does.                                      *)

\* the characters of the keys, in the order of their codes
CODES ==
    <<DOT, SLASH, "B", "X", "a", "b", "c", "h", "j", "l", "n", "r", "s", "t", "x", "y", "z">>

CharCode(c) == CHOOSE i \in 1..Len(CODES) : CODES[i] = c

\* the order S3 lists keys in: by the bytes of the key
RECURSIVE KeyLess(_, _)
KeyLess(a, b) ==
    IF a = <<>> THEN b # <<>>
    ELSE IF b = <<>> THEN FALSE
    ELSE IF Head(a) = Head(b) THEN KeyLess(Tail(a), Tail(b))
    ELSE CharCode(Head(a)) < CharCode(Head(b))

\* the first n of the strings in keys, in key order
FirstKeys(keys, n) == {k \in keys : Cardinality({j \in keys : KeyLess(j, k)}) < n}

\* the strings in keys as a sequence in key order
RECURSIVE InKeyOrder(_)
InKeyOrder(keys) ==
    IF keys = {} THEN <<>>
    ELSE LET least(k) == <<k>> \o InKeyOrder(keys \ {k})
         IN  least(CHOOSE k \in keys : \A j \in keys : j = k \/ KeyLess(k, j))

\* ListObjectsV2 sends at most this many keys and common prefixes in one
\* response (1000 at Amazon S3)
MaxKeys == 2

\* config.prefix || ""
S3_PREFIX == <<>>

\* S3StorageAdapter.normalizeKey
normalizeKey(path) ==
    LET noTail(p) == IF p # <<>> /\ p[Len(p)] = SLASH THEN Front(p) ELSE p
        noHead(p) == IF p # <<>> /\ Head(p) = SLASH THEN Tail(p) ELSE p
        prefixed(cleanPath) ==
            IF S3_PREFIX # <<>> THEN S3_PREFIX \o <<SLASH>> \o cleanPath ELSE cleanPath
    IN  prefixed(noTail(noHead(path)))

\* S3StorageAdapter.stripPrefix
stripPrefix(key) ==
    IF S3_PREFIX # <<>> /\ StartsWith(key, S3_PREFIX \o <<SLASH>>)
    THEN SubSeq(key, Len(S3_PREFIX) + 2, Len(key))
    ELSE key

\* the common prefix a key under prefix is rolled up into when the delimiter
\* "/" is given: up to the first "/" after the prefix; <<>> when there is none
CommonPrefix(key, prefix) ==
    LET at == {i \in (Len(prefix) + 1)..Len(key) : key[i] = SLASH}
        upTo(i) == SubSeq(key, 1, i)
    IN  IF at = {} THEN <<>>
        ELSE upTo(CHOOSE i \in at : \A j \in at : i <= j)

\* the first response of ListObjectsV2 with Prefix, Delimiter (or none) and
\* MaxKeys: keys and common prefixes together, in key order, cut at MaxKeys
ListObjectsV2(b, prefix, delimited, maxKeys) ==
    LET under == {k \in DOMAIN b : StartsWith(k, prefix)}
        rolled == IF delimited
                  THEN {k \in under : CommonPrefix(k, prefix) # <<>>}
                  ELSE {}
        page(items) ==
            [Contents |-> InKeyOrder(items \cap (under \ rolled)),
             CommonPrefixes |->
                 InKeyOrder(items \cap {CommonPrefix(k, prefix) : k \in rolled})]
    IN  page(FirstKeys((under \ rolled) \cup {CommonPrefix(k, prefix) : k \in rolled},
                       maxKeys))

\* the elements of a sequence
Range(seq) == {seq[i] : i \in 1..Len(seq)}

\* <string>.split("/").filter(Boolean).pop() || ""
lastPiece(str) ==
    LET pieces == SelectSeq(Split(str, SLASH), LAMBDA x : x # <<>>)
    IN  IF pieces = <<>> THEN <<>> ELSE pieces[Len(pieces)]

\* <string>.split("/").pop() || ""
lastSplit(str) == Split(str, SLASH)[Len(Split(str, SLASH))]

\* the lower-case form of a character
ToLower(c) == IF c = "B" THEN "b" ELSE IF c = "X" THEN "x" ELSE c

\* String.prototype.toLowerCase
LowerCase(str) == [i \in 1..Len(str) |-> ToLower(str[i])]

\* a comparison of the names by the codes of their characters
LocaleLess_Bytes(a, b) == KeyLess(a, b)

\* a.localeCompare(b) < 0: the letters decide whatever their case; of two
\* names with the same letters the one whose first differing letter is in
\* lower case comes first
LocaleLess(a, b) ==
    LET differ == {i \in 1..Len(a) : a[i] # b[i]}
        lowerFirst(i) == a[i] = ToLower(a[i])
    IN  \/ KeyLess(LowerCase(a), LowerCase(b))
        \/ /\ LowerCase(a) = LowerCase(b)
           /\ differ # {}
           /\ lowerFirst(CHOOSE i \in differ : \A j \in differ : i <= j)

\* entries.sort: directories first, then by name
RECURSIVE SortEntries(_)
SortEntries(entries) ==
    IF entries = {} THEN <<>>
    ELSE LET before(x, y) ==
                 \/ x.type = "directory" /\ y.type = "file"
                 \/ x.type = y.type /\ LocaleLess(x.name, y.name)
             first(e) == <<e>> \o SortEntries(entries \ {e})
         IN  first(CHOOSE e \in entries : \A f \in entries : ~before(f, e))

\* S3StorageAdapter.list with the options limit and offset
s3List(b, path, limit, offset) ==
    LET paged(entries) ==
            Listed(b, IF Truthy(offset) THEN Slice(entries, offset[1], Len(entries))
                      ELSE entries,
                   Len(entries))
        entriesOf(prefix, response) ==
            SortEntries(
                {[name |-> lastPiece(stripPrefix(p)), type |-> "directory", size |-> 0] :
                     p \in Range(response.CommonPrefixes)}
                \cup
                {[name |-> lastSplit(stripPrefix(k)), type |-> "file", size |-> b[k].size] :
                     k \in Range(response.Contents) \ {prefix}})
        listed(prefix) ==
            entriesOf(prefix, ListObjectsV2(b, prefix, TRUE,
                                            IF Truthy(limit) THEN limit[1] ELSE MaxKeys))
    IN  paged(listed(normalizeKey(path)))

\* S3StorageAdapter.stat(path) !== null
s3Exists(b, path) ==
    LET found(key) ==
            \/ key \in DOMAIN b
            \/ ListObjectsV2(b, key \o <<SLASH>>, FALSE, 1).Contents # <<>>
    IN  Returned(b, <<>>, found(normalizeKey(path)))

\* S3StorageAdapter.write
s3Write(b, path, content) ==
    LET put(key) == [k \in DOMAIN b \cup {key} |-> IF k = key THEN content ELSE b[k]]
    IN  Returned(put(normalizeKey(path)), <<>>, FALSE)

\* S3StorageAdapter.mkdir: the placeholder object <key>/
s3Mkdir(b, path) ==
    LET put(key) ==
            [k \in DOMAIN b \cup {key} |-> IF k = key THEN [size |-> 0, body |-> ""] ELSE b[k]]
    IN  Returned(put(normalizeKey(path) \o <<SLASH>>), <<>>, FALSE)

\* S3StorageAdapter.delete: DeleteObject for every key of one list response,
\* then for the key itself
s3Delete(b, path) ==
    LET without(gone) == [k \in DOMAIN b \ gone |-> b[k]]
        listed(key) ==
            Range(ListObjectsV2(b, key \o <<SLASH>>, FALSE, MaxKeys).Contents)
        removed(key) == without(listed(key) \cup {key})
    IN  Returned(removed(normalizeKey(path)), <<>>, FALSE)

\* S3StorageAdapter.copy: CopyObject throws for a missing source and for a
\* copy of an object onto itself
s3Copy(b, source, destination) ==
    LET copied(sourceKey, destKey) ==
            IF sourceKey \notin DOMAIN b THEN Thrown(b, "NoSuchKey")
            ELSE IF sourceKey = destKey THEN Thrown(b, "InvalidRequest")
            ELSE Returned([k \in DOMAIN b \cup {destKey} |->
                              IF k = destKey THEN b[sourceKey] ELSE b[k]], <<>>, FALSE)
    IN  copied(normalizeKey(source), normalizeKey(destination))

\* S3StorageAdapter.move: copy, then delete the source
s3Move(b, source, destination) ==
    LET deleted(copied) ==
            IF ~copied.ok THEN copied ELSE s3Delete(copied.store, source)
    IN  deleted(s3Copy(b, source, destination))

nX == <<"x">>
nY == <<"y">>

\* the paths the callers of the adapter name
S3Paths == { PathOf(<<nA>>), PathOf(<<nA, nX>>), PathOf(<<nA, nY>>) }

\* the content written: "hi"
HI == [size |-> 2, body |-> "hi"]

\* the bucket is empty
S3AdapterInit ==
    /\ bucket = <<>>
    /\ outcome = NoOutcome

\* a call of the S3 adapter with outcome r
S3Call(op, r) ==
    /\ bucket' = r.store
    /\ outcome' = Outcome("s3", op, r)
    /\ UNCHANGED trashVars

S3List(path) ==
    /\ S3Call("list", s3List(bucket, path, Absent, Absent))
    /\ UNCHANGED notAdapter

S3Exists(path) ==
    /\ S3Call("exists", s3Exists(bucket, path))
    /\ UNCHANGED notAdapter

S3Write(path) ==
    /\ S3Call("write", s3Write(bucket, path, HI))
    /\ UNCHANGED notAdapter

S3Mkdir(path) ==
    /\ S3Call("mkdir", s3Mkdir(bucket, path))
    /\ UNCHANGED notAdapter

S3Delete(path) ==
    /\ S3Call("delete", s3Delete(bucket, path))
    /\ UNCHANGED notAdapter

S3Copy(source, destination) ==
    /\ S3Call("copy", s3Copy(bucket, source, destination))
    /\ UNCHANGED notAdapter

S3Move(source, destination) ==
    /\ S3Call("move", s3Move(bucket, source, destination))
    /\ UNCHANGED notAdapter

S3AdapterNext ==
    \/ \E p \in S3Paths \cup {<<SLASH>>} : S3List(p)
    \/ \E p \in S3Paths : S3Exists(p)
    \/ \E p \in S3Paths : S3Write(p)
    \/ \E p \in S3Paths : S3Mkdir(p)
    \/ \E p \in S3Paths : S3Delete(p)
    \/ \E s \in S3Paths : \E d \in S3Paths : S3Copy(s, d)
    \/ \E s \in S3Paths : \E d \in S3Paths : S3Move(s, d)

-----------------------------------------------------------------------------
(* Listings: LocalStorageAdapter.list, S3StorageAdapter.list with options  *)
(* and GET /api/list, over directories that hold names of both cases and a *)
(* symbolic link.                                                          *)

\* a symbolic link to the host path target
Link(target) == [type |-> "link", target |-> target]

\* fs.readdir(p, { withFileTypes: true }): the entries directly under p
readdir(d, p) == {q \in DOMAIN d : Len(q) = Len(p) + 1 /\ IsPrefix(p, q)}

\* fs.stat(p) follows a symbolic link and throws when nothing is at its end
statFails(d, p) == d[p].type = "link" /\ d[p].target \notin DOMAIN d

\* fs.stat(p): the entry at p, for a link the entry at its target
stat(d, p) == IF d[p].type = "link" THEN d[d[p].target] ELSE d[p]

\* stats.size; the model keeps 0 for the size of a directory
sizeOf(e) == IF e.type = "file" THEN e.size ELSE 0

\* LocalStorageAdapter.list with this.root = rootDir
localList(d, rootDir, path, limit, offset) ==
    LET paged(mapped) ==
            Listed(d, IF Truthy(limit)
                      THEN Slice(mapped, IF offset = Absent THEN 0 ELSE offset[1],
                                 (IF offset = Absent THEN 0 ELSE offset[1]) + limit[1])
                      ELSE mapped,
                   Len(mapped))
        entry(q) ==
            [name |-> q[Len(q)],
             type |-> IF d[q].type = "dir" THEN "directory" ELSE "file",
             size |-> sizeOf(stat(d, q))]
        read(fullPath) ==
            IF ~IsDirectory(d, fullPath) THEN Thrown(d, "readdir")
            ELSE IF \E q \in readdir(d, fullPath) : statFails(d, q) THEN Thrown(d, "stat")
            ELSE paged(SortEntries({entry(q) : q \in readdir(d, fullPath)}))
        resolved(full) ==
            IF ~full.ok THEN Thrown(d, "Path traversal detected")
            ELSE read(SegmentsOf(full.fullPath))
    IN  resolved(resolvePath(path, rootDir))

\* filtered.sort of GET /api/list: directories first, then
\* a.name.localeCompare(b.name, undefined, { sensitivity: "base" }), which
\* takes names that differ in case only as equal
RECURSIVE SortFiltered(_)
SortFiltered(entries) ==
    IF entries = {} THEN <<>>
    ELSE LET before(x, y) ==
                 \/ x.type = "dir" /\ y.type = "file"
                 \/ x.type = y.type /\ KeyLess(LowerCase(x.name), LowerCase(y.name))
             first(e) == <<e>> \o SortFiltered(entries \ {e})
         IN  first(CHOOSE e \in entries : \A f \in entries : ~before(f, e))

\* GET /api/list from fs.readdir on, for the directory fullPath that the
\* request path normalized resolves to; pageSize and requestedPage are what
\* parsePositiveInt returns, Absent for null
listEntries(d, fullPath, normalized, pageSize, requestedPage) ==
    LET kept == {q \in readdir(d, fullPath) :
                    /\ d[q].type # "link"
                    /\ ~(normalized = <<SLASH>> /\ q[Len(q)] = TRASH_NAME)}
        entry(q) ==
            [name |-> q[Len(q)],
             type |-> IF d[q].type = "dir" THEN "dir" ELSE "file",
             size |-> sizeOf(d[q])]
        least(x, y) == IF x < y THEN x ELSE y
        totalPages(n) == IF n = 0 THEN 1 ELSE (n + pageSize[1] - 1) \div pageSize[1]
        page(n) == least(IF requestedPage = Absent THEN 1 ELSE requestedPage[1], totalPages(n))
        paged(filtered) ==
            IF pageSize = Absent THEN Listed(d, filtered, 0)
            ELSE Listed(d, Slice(filtered, (page(Len(filtered)) - 1) * pageSize[1],
                                 (page(Len(filtered)) - 1) * pageSize[1] + pageSize[1]),
                        Len(filtered))
    IN  paged(SortFiltered({entry(q) : q \in kept}))

nS == <<"s">>
nUpperB == <<"B">>
nUpperX == <<"X">>

\* what a listed directory may hold besides .trash: the directories a and B,
\* the files c and X, the link l to the file /d/s outside the root /d/u
ListedChildren ==
    [n \in {nA, nUpperB, nC, nUpperX, nL} |->
        IF n \in {nA, nUpperB} THEN Dir
        ELSE IF n = nC THEN File("c", 1)
        ELSE IF n = nUpperX THEN File("x", 2)
        ELSE Link(<<nD, nS>>)]

\* the objects a listed bucket may hold
ListedObjects ==
    [k \in {<<"a", SLASH, "x">>, <<"B", SLASH>>, <<"c">>, <<"X">>} |->
        IF k = <<"B", SLASH>> THEN [size |-> 0, body |-> ""] ELSE HI]

\* the options of a list call
ListOptions == {Absent, Given(1), Given(2)}

ListingInit ==
    /\ \E names \in SUBSET DOMAIN ListedChildren : \E keys \in SUBSET DOMAIN ListedObjects :
          /\ names = {} \/ keys = {}
          /\ disk = [p \in {<<nD>>, <<nD, nS>>, <<nD, nU>>, <<nD, nU, TRASH_NAME>>}
                           \cup {<<nD, nU, n>> : n \in names} |->
                        IF p = <<nD, nS>> THEN File("s", 1)
                        ELSE IF Len(p) < 3 \/ p[3] = TRASH_NAME THEN Dir
                        ELSE ListedChildren[p[3]]]
          /\ bucket = [k \in keys |-> ListedObjects[k]]
    /\ handlers = [t \in TaskIds |-> IdleHandler]
    /\ reply = NoReply
    /\ uuid = 1
    /\ trashed = <<>>
    /\ outcome = NoOutcome

LocalList(path, limit, offset) ==
    /\ LocalCall("list", localList(disk, LOCAL_ROOT, path, limit, offset))
    /\ UNCHANGED notAdapter

S3ListOptions(path, limit, offset) ==
    /\ S3Call("list", s3List(bucket, path, limit, offset))
    /\ UNCHANGED notAdapter

\* GET /api/list?path=/ of a session whose root is LOCAL_ROOT
EndpointList(pageSize, requestedPage) ==
    /\ outcome' = Outcome("endpoint", "list",
                          listEntries(disk, SegmentsOf(LOCAL_ROOT), <<SLASH>>,
                                      pageSize, requestedPage))
    /\ UNCHANGED <<trashVars, bucket>>
    /\ UNCHANGED notAdapter

ListingNext ==
    \/ \E p \in {<<SLASH>>, PathOf(<<nA>>)} :
          \E limit \in ListOptions : \E offset \in ListOptions : LocalList(p, limit, offset)
    \/ \E limit \in ListOptions : \E offset \in ListOptions :
          S3ListOptions(<<SLASH>>, limit, offset)
    \/ \E pageSize \in ListOptions : \E requestedPage \in ListOptions :
          EndpointList(pageSize, requestedPage)

-----------------------------------------------------------------------------
(* GET /api/archive: the size probe and the choice of the compression.     *)

\* ARCHIVE_LARGE_MB of the environment, a positive number of MiB
ARCHIVE_LARGE_MB == 1

ARCHIVE_LARGE_BYTES == ARCHIVE_LARGE_MB * 1024 * 1024

\* the dirents fs.readdir returns that are no symbolic links, in the order
\* of their names or in the opposite order
direntsOf(d, p, reversed) ==
    LET names == {q[Len(q)] : q \in {c \in readdir(d, p) : d[c].type # "link"}}
        turned(seq) == [i \in 1..Len(seq) |-> seq[Len(seq) + 1 - i]]
        paths(seq) == [i \in 1..Len(seq) |-> p \o <<seq[i]>>]
    IN  paths(IF reversed THEN turned(InKeyOrder(names)) ELSE InKeyOrder(names))

\* the while loop of sumPathBytes over its stack
RECURSIVE sumStack(_, _, _, _, _)
sumStack(d, stack, total, limit, reversed) ==
    LET next(current, rest) ==
            IF current \notin DOMAIN d \/ d[current].type = "link"
            THEN sumStack(d, rest, total, limit, reversed)
            ELSE IF d[current].type = "file"
            THEN IF total + d[current].size >= limit THEN total + d[current].size
                 ELSE sumStack(d, rest, total + d[current].size, limit, reversed)
            ELSE IF total >= limit THEN total
            ELSE sumStack(d, rest \o direntsOf(d, current, reversed), total, limit, reversed)
    IN  IF stack = <<>> THEN total
        ELSE next(stack[Len(stack)], SubSeq(stack, 1, Len(stack) - 1))

\* sumPathBytes(root, limit)
sumPathBytes(d, rootPath, limit, reversed) ==
    IF limit <= 0 THEN 0 ELSE sumStack(d, <<rootPath>>, 0, limit, reversed)

\* the for loop of getArchiveTotalBytes over the paths left
RECURSIVE sumPaths(_, _, _, _, _)
sumPaths(d, paths, total, limit, reversed) ==
    IF paths = <<>> \/ total >= limit THEN total
    ELSE sumPaths(d, Tail(paths),
                  total + sumPathBytes(d, Head(paths), limit - total, reversed),
                  limit, reversed)

\* getArchiveTotalBytes(paths, limit)
getArchiveTotalBytes(d, paths, limit, reversed) ==
    IF limit <= 0 THEN 0 ELSE sumPaths(d, paths, 0, limit, reversed)

\* const useStore = format === "zip" && totalBytes > ARCHIVE_LARGE_BYTES
compressionOf_Above(format, totalBytes) ==
    IF format # "zip" THEN "gzip"
    ELSE IF totalBytes > ARCHIVE_LARGE_BYTES THEN "store" ELSE "normal"

\* useStore and compression of GET /api/archive
compressionOf(format, totalBytes) ==
    IF format # "zip" THEN "gzip"
    ELSE IF totalBytes >= ARCHIVE_LARGE_BYTES THEN "store" ELSE "normal"

\* the sizes of the files archived
ArchivedSizes ==
    {1, 2, ARCHIVE_LARGE_BYTES - 2, ARCHIVE_LARGE_BYTES - 1, ARCHIVE_LARGE_BYTES}

\* under the root /d/u: the directory a with the file a/b and the link a/l,
\* and the file c
ArchiveInit ==
    /\ \E sizeB \in ArchivedSizes : \E sizeC \in ArchivedSizes :
          disk = [p \in {<<nD>>, <<nD, nS>>, <<nD, nU>>, <<nD, nU, nA>>, <<nD, nU, nA, nB>>,
                          <<nD, nU, nA, nL>>, <<nD, nU, nC>>} |->
                     IF p = <<nD, nS>> THEN File("s", ARCHIVE_LARGE_BYTES)
                     ELSE IF p = <<nD, nU, nA, nB>> THEN File("x", sizeB)
                     ELSE IF p = <<nD, nU, nC>> THEN File("y", sizeC)
                     ELSE IF p = <<nD, nU, nA, nL>> THEN Link(<<nD, nS>>)
                     ELSE Dir]
    /\ handlers = [t \in TaskIds |-> IdleHandler]
    /\ reply = NoReply
    /\ uuid = 1
    /\ trashed = <<>>
    /\ bucket = <<>>
    /\ outcome = NoOutcome

\* the resolved paths of an archive request
ArchiveRequests ==
    { <<<<nD, nU, nA>>>>, <<<<nD, nU, nC>>>>, <<<<nD, nU, nA, nB>>>>, <<<<nD, nU, nG>>>>,
      <<<<nD, nU, nA>>, <<nD, nU, nC>>>>, <<<<nD, nU, nC>>, <<nD, nU, nA>>>>,
      <<<<nD, nU, nA>>, <<nD, nU, nA, nB>>>> }

\* GET /api/archive from the size probe on, for the resolved paths
Archive(format, resolvedFullPaths, reversed) ==
    /\ LET answered(totalBytes) ==
               [NoOutcome EXCEPT
                  !.adapter = "endpoint", !.op = "archive", !.ok = TRUE,
                  !.total = totalBytes, !.mode = compressionOf(format, totalBytes)]
       IN  outcome' = answered(IF format = "zip"
                               THEN getArchiveTotalBytes(disk, resolvedFullPaths,
                                                         ARCHIVE_LARGE_BYTES, reversed)
                               ELSE 0)
    /\ UNCHANGED <<trashVars, bucket>>
    /\ UNCHANGED notAdapter

ArchiveNext ==
    \E format \in {"zip", "targz"} : \E paths \in ArchiveRequests : \E reversed \in BOOLEAN :
        Archive(format, paths, reversed)

-----------------------------------------------------------------------------
(* The S3 configuration endpoints and what their responses carry.  Each    *)
(* handler is one step here: the store is read and written within it.      *)

\* { ...a, ...b }
Spread(a, b) ==
    [f \in DOMAIN a \cup DOMAIN b |-> IF f \in DOMAIN b THEN b[f] ELSE a[f]]

\* ({ secretAccessKey: _, ...rest }) => rest
withoutSecret(config) == [f \in DOMAIN config \ {"secretAccessKey"} |-> config[f]]

\* the profile as update hands it back
echoed_Unmasked(config) == config

\* { ...config, secretAccessKey: "***" }
echoed(config) == Spread(config, [secretAccessKey |-> "***"])

\* the response of a configuration endpoint: the profiles in its body
Payload(op, ok, error, configs) ==
    [NoOutcome EXCEPT !.adapter = "endpoint", !.op = op, !.ok = ok, !.error = error,
                      !.entries = configs]

\* the secret keys callers send
ConfigSecrets == {"k", "j"}

\* the bodies of POST /api/s3/configs, with and without a secret key; the
\* other required fields are given
CreateBodies ==
    [name : {"n"}, secretAccessKey : ConfigSecrets \cup {""}]

\* the bodies of PUT /api/s3/configs/:id
UpdateBodies ==
    [name : {"m"}] \cup [secretAccessKey : ConfigSecrets]
    \cup [name : {"m"}, secretAccessKey : ConfigSecrets]

ConfigsInit ==
    /\ SettingsInit
    /\ TrashIdle
    /\ AdapterIdle

\* GET /api/s3/configs
ConfigsGetAll(s) ==
    /\ outcome' = IF s.role # "admin" THEN Payload("list", FALSE, "Unauthorized", <<>>)
                  ELSE Payload("list", TRUE, "", [i \in 1..Len(doc) |-> withoutSecret(doc[i])])
    /\ UNCHANGED <<s3Vars, trashVars, bucket>>
    /\ UNCHANGED <<pathVars, sessVars>>

\* GET /api/s3/configs/:id
ConfigsGet(s, id) ==
    /\ outcome' = IF s.role # "admin" THEN Payload("get", FALSE, "Unauthorized", <<>>)
                  ELSE IF FindIndex(doc, id) = 0
                  THEN Payload("get", FALSE, "Configuration not found", <<>>)
                  ELSE Payload("get", TRUE, "", <<doc[FindIndex(doc, id)]>>)
    /\ UNCHANGED <<s3Vars, trashVars, bucket>>
    /\ UNCHANGED <<pathVars, sessVars>>

\* POST /api/s3/configs
ConfigsCreate(s, body) ==
    /\ nextId <= MaxStored
    /\ IF s.role # "admin"
       THEN /\ outcome' = Payload("create", FALSE, "Unauthorized", <<>>)
            /\ UNCHANGED <<doc, nextId>>
       ELSE IF body.name = "" \/ body.secretAccessKey = ""
       THEN /\ outcome' = Payload("create", FALSE, "Missing required fields", <<>>)
            /\ UNCHANGED <<doc, nextId>>
       ELSE /\ doc' = Append(doc, Spread(body, [id |-> nextId]))
            /\ nextId' = nextId + 1
            /\ outcome' = Payload("create", TRUE, "", <<echoed(Spread(body, [id |-> nextId]))>>)
    /\ UNCHANGED <<s3Sessions, tasks, served, acked, trashVars, bucket>>
    /\ UNCHANGED <<pathVars, sessVars>>

\* PUT /api/s3/configs/:id
ConfigsUpdate(s, id, body) ==
    /\ IF s.role # "admin"
       THEN /\ outcome' = Payload("update", FALSE, "Unauthorized", <<>>)
            /\ UNCHANGED doc
       ELSE IF FindIndex(doc, id) = 0
       THEN /\ outcome' = Payload("update", FALSE, "Configuration not found", <<>>)
            /\ UNCHANGED doc
       ELSE /\ doc' = [doc EXCEPT ![FindIndex(doc, id)] = Spread(@, body)]
            /\ outcome' = Payload("update", TRUE, "",
                                  <<echoed(Spread(doc[FindIndex(doc, id)], body))>>)
    /\ UNCHANGED <<nextId, s3Sessions, tasks, served, acked, trashVars, bucket>>
    /\ UNCHANGED <<pathVars, sessVars>>

\* DELETE /api/s3/configs/:id
ConfigsDelete(s, id) ==
    /\ IF s.role # "admin"
       THEN /\ outcome' = Payload("delete", FALSE, "Unauthorized", <<>>)
            /\ UNCHANGED doc
       ELSE IF FindIndex(doc, id) = 0
       THEN /\ outcome' = Payload("delete", FALSE, "Configuration not found", <<>>)
            /\ UNCHANGED doc
       ELSE /\ doc' = Splice(doc, FindIndex(doc, id))
            /\ outcome' = Payload("delete", TRUE, "", <<>>)
    /\ UNCHANGED <<nextId, s3Sessions, tasks, served, acked, trashVars, bucket>>
    /\ UNCHANGED <<pathVars, sessVars>>

ConfigsNext ==
    \/ \E s \in USERS : ConfigsGetAll(s)
    \/ \E s \in USERS : \E id \in 1..MaxStored : ConfigsGet(s, id)
    \/ \E s \in USERS : \E body \in CreateBodies : ConfigsCreate(s, body)
    \/ \E s \in USERS : \E id \in 1..MaxStored : \E body \in UpdateBodies :
          ConfigsUpdate(s, id, body)
    \/ \E s \in USERS : \E id \in 1..MaxStored : ConfigsDelete(s, id)

\* the secret keys of the stored profiles
StoredSecrets(configs) == {configs[i].secretAccessKey : i \in 1..Len(configs)}

\* a field of a profile of the payload, its id aside, holds one of the secrets
Discloses(payload, secrets) ==
    \E i \in 1..Len(payload) : \E f \in DOMAIN payload[i] \ {"id"} : payload[i][f] \in secrets

\* C25: no payload of the profile list, of create or of update holds the
\* secretAccessKey of any stored profile; a payload that holds one is the
\* answer of get-by-id to an admin.
C25_SecretRedacted ==
    [][ /\ \A s \in USERS :
             ConfigsGetAll(s) => ~Discloses(outcome'.entries, StoredSecrets(doc'))
        /\ \A s \in USERS : \A body \in CreateBodies :
             ConfigsCreate(s, body) => ~Discloses(outcome'.entries, StoredSecrets(doc'))
        /\ \A s \in USERS : \A id \in 1..MaxStored : \A body \in UpdateBodies :
             ConfigsUpdate(s, id, body)
             => ~Discloses(outcome'.entries, StoredSecrets(doc) \cup StoredSecrets(doc'))
        /\ \A s \in USERS : \A id \in 1..MaxStored :
             (ConfigsGet(s, id) /\ s.role # "admin")
             => ~Discloses(outcome'.entries, StoredSecrets(doc')) ]_vars

\* an admin has updated the secret key of one of two stored profiles and got
\* the profile back
C25_Witness ==
    /\ outcome.op = "update"
    /\ outcome.ok
    /\ Len(doc) = 2
    /\ Len(outcome.entries) = 1
    /\ outcome.entries[1].secretAccessKey = "***"
    /\ StoredSecrets(doc) = ConfigSecrets

-----------------------------------------------------------------------------
(* Opening a file: GET /api/preview, GET /api/edit and their counterparts  *)
(* GET /api/s3/preview, GET /api/s3/edit.  The response is kept in outcome *)
(* with its status and the number of bytes of file content it carries.     *)

MAX_PREVIEW_BYTES == 200 * 1024

TEXT_PREVIEW_EXTS ==
    { <<DOT, "t", "x", "t">>, <<DOT, "p", "h", "p">>, <<DOT, "j", "s">>,
      <<DOT, "h", "t", "m", "l">> }

\* isTextPreviewable(filePath); the names of the model have no upper case
isTextPreviewable(p) == p # <<>> /\ extname(p[Len(p)]) \in TEXT_PREVIEW_EXTS

\* c.json(..., status) of a handler that opens a file
Opened(adapter, op, status, error, bytes) ==
    [NoOutcome EXCEPT !.adapter = adapter, !.op = op, !.ok = status < 400,
                      !.status = status, !.error = error, !.bytes = bytes]

\* GET /api/preview and GET /api/edit, which differ in the file types they
\* take, in the limit and in their messages
openFile(d, lk, s, requestPath, op) ==
    LET limit == IF op = "preview" THEN MAX_PREVIEW_BYTES ELSE MAX_EDIT_BYTES
        taken(fullPath) ==
            IF op = "preview" THEN isTextPreviewable(fullPath) ELSE isTextEditable(fullPath)
        opened(fullPath) ==
            IF fullPath \notin DOMAIN d \/ d[fullPath].type # "file"
            THEN Opened("local", op, 400, "Path is not a file.", 0)
            ELSE IF ~taken(fullPath)
            THEN Opened("local", op, 400,
                        IF op = "preview" THEN "Preview not available for this file type."
                        ELSE "Editor not available for this file type.", 0)
            ELSE IF d[fullPath].size > limit
            THEN Opened("local", op, 413,
                        IF op = "preview" THEN "File is too large to preview."
                        ELSE "File is too large to edit.", 0)
            ELSE Opened("local", op, 200, "", d[fullPath].size)
        handle(resolved) ==
            IF requestPath = <<>> THEN Opened("local", op, 400, "Path is required.", 0)
            ELSE IF ~resolved.ok THEN Opened("local", op, 404, "Path not found.", 0)
            ELSE opened(SegmentsOf(resolved.fullPath))
    IN  handle(resolveSafePath(requestPath, s.rootReal, lk, HostOf(d)))

\* S3StorageAdapter.stat: the object at the key, else a directory when a key
\* lies under it, else null (found is FALSE)
s3Stat(b, path) ==
    LET at(key) ==
            IF key \in DOMAIN b THEN [found |-> TRUE, type |-> "file", size |-> b[key].size]
            ELSE IF ListObjectsV2(b, key \o <<SLASH>>, FALSE, 1).Contents # <<>>
            THEN [found |-> TRUE, type |-> "directory", size |-> 0]
            ELSE [found |-> FALSE, type |-> "", size |-> 0]
    IN  at(normalizeKey(path))

\* GET /api/s3/preview of a session that is connected: the text is cut at
\* 200 * 1024 characters
s3Preview(b, path) ==
    LET least(x, y) == IF x < y THEN x ELSE y
        answered(st) ==
            IF ~st.found \/ st.type = "directory" THEN Opened("s3", "preview", 400, "Not a file", 0)
            ELSE Opened("s3", "preview", 200, "", least(st.size, 200 * 1024))
    IN  IF path = <<>> THEN Opened("s3", "preview", 400, "Missing path", 0)
        ELSE answered(s3Stat(b, path))

\* GET /api/s3/edit of a session that is connected
s3Edit(b, s, path) ==
    LET answered(st) ==
            IF ~st.found THEN Opened("s3", "edit", 404, "File not found", 0)
            ELSE IF st.size > 1024 * 1024
            THEN Opened("s3", "edit", 400, "File too large to edit", 0)
            ELSE Opened("s3", "edit", 200, "", st.size)
    IN  IF s.role = "read-only"
        THEN Opened("s3", "edit", 403, "Read-only users cannot edit files", 0)
        ELSE IF path = <<>> THEN Opened("s3", "edit", 400, "Missing path", 0)
        ELSE answered(s3Stat(b, path))

nJS == <<"t", DOT, "j", "s">>

\* the sizes of the file opened: at and just above the two limits
OpenedSizes ==
    {1, MAX_PREVIEW_BYTES, MAX_PREVIEW_BYTES + 1, MAX_EDIT_BYTES, MAX_EDIT_BYTES + 1}

\* the paths the requests name: the file, a directory, nothing
OpenedPaths == { PathOf(<<nJS>>), PathOf(<<nA>>), PathOf(<<nN>>) }

\* under the root /d/u and in the bucket: the file t.js and the directory a
\* with a file in it
OpenInit ==
    /\ \E size \in OpenedSizes :
          disk = [p \in {<<nD>>, <<nD, nU>>, <<nD, nU, nA>>, <<nD, nU, nA, nB>>,
                          <<nD, nU, nJS>>} |->
                     IF p = <<nD, nU, nJS>> THEN File("x", size)
                     ELSE IF p = <<nD, nU, nA, nB>> THEN File("y", 1)
                     ELSE Dir]
    /\ \E size \in OpenedSizes :
          bucket = [k \in {nJS, <<"a", SLASH, "b">>} |->
                       IF k = nJS THEN [size |-> size, body |-> "x"] ELSE HI]
    /\ handlers = [t \in TaskIds |-> IdleHandler]
    /\ reply = NoReply
    /\ uuid = 1
    /\ trashed = <<>>
    /\ outcome = NoOutcome

PreviewLocal(s, requestPath) ==
    /\ outcome' = openFile(disk, links, s, requestPath, "preview")
    /\ UNCHANGED <<trashVars, bucket>>
    /\ UNCHANGED notAdapter

EditLocal(s, requestPath) ==
    /\ outcome' = openFile(disk, links, s, requestPath, "edit")
    /\ UNCHANGED <<trashVars, bucket>>
    /\ UNCHANGED notAdapter

PreviewS3(s, requestPath) ==
    /\ outcome' = s3Preview(bucket, requestPath)
    /\ UNCHANGED <<trashVars, bucket>>
    /\ UNCHANGED notAdapter

EditS3(s, requestPath) ==
    /\ outcome' = s3Edit(bucket, s, requestPath)
    /\ UNCHANGED <<trashVars, bucket>>
    /\ UNCHANGED notAdapter

OpenNext ==
    \/ \E s \in USERS : \E p \in OpenedPaths : PreviewLocal(s, p)
    \/ \E s \in USERS : \E p \in OpenedPaths : EditLocal(s, p)
    \/ \E s \in USERS : \E p \in OpenedPaths : PreviewS3(s, p)
    \/ \E s \in USERS : \E p \in OpenedPaths : EditS3(s, p)

\* the file the local request opens is of a type the operation takes and
\* larger than limit
LocalFileAbove(s, requestPath, limit) ==
    LET above(resolved) ==
            /\ resolved.ok
            /\ SegmentsOf(resolved.fullPath) \in DOMAIN disk
            /\ disk[SegmentsOf(resolved.fullPath)].type = "file"
            /\ isTextPreviewable(SegmentsOf(resolved.fullPath))
            /\ isTextEditable(SegmentsOf(resolved.fullPath))
            /\ disk[SegmentsOf(resolved.fullPath)].size > limit
    IN  above(resolveSafePath(requestPath, s.rootReal, links, HostOf(disk)))

\* the object the S3 request opens is larger than limit
ObjectAbove(requestPath, limit) ==
    /\ normalizeKey(requestPath) \in DOMAIN bucket
    /\ bucket[normalizeKey(requestPath)].size > limit

\* the request is answered 413 without file content
TooLarge(response) == response.status = 413 /\ response.bytes = 0

\* C27: a preview of a file larger than 200 KiB and an edit of a file larger
\* than 1 MiB are answered 413 and carry no file content, on the local
\* operations and on their S3 counterparts.
C27_TooLargeRefused ==
    [][ \A s \in USERS : \A p \in OpenedPaths :
          /\ (PreviewLocal(s, p) /\ LocalFileAbove(s, p, MAX_PREVIEW_BYTES))
             => TooLarge(outcome')
          /\ (EditLocal(s, p) /\ LocalFileAbove(s, p, MAX_EDIT_BYTES)) => TooLarge(outcome')
          /\ (PreviewS3(s, p) /\ ObjectAbove(p, MAX_PREVIEW_BYTES)) => TooLarge(outcome')
          /\ (EditS3(s, p) /\ canWrite(s.role) /\ ObjectAbove(p, MAX_EDIT_BYTES))
             => TooLarge(outcome') ]_vars

-----------------------------------------------------------------------------
(* Requests in parallel for one destination: two handlers, each between    *)
(* its test for the destination and its write.                             *)

\* under the root /d/u the files a and b; nothing is at c
RaceInit ==
    /\ disk = [p \in { <<nD>>, <<nD, nU>>, <<nD, nU, nA>>, <<nD, nU, nB>> } |->
                 IF p = <<nD, nU, nA>> THEN File("x", 1)
                 ELSE IF p = <<nD, nU, nB>> THEN File("y", 1)
                 ELSE Dir]
    /\ handlers = [t \in TaskIds |-> IdleHandler]
    /\ reply = NoReply
    /\ uuid = 1
    /\ trashed = <<>>

\* the sources of the move and copy requests for the destination /c
RaceSources == { PathOf(<<nA>>), PathOf(<<nB>>) }

RaceNext ==
    \/ \E t \in TaskIds :
        \/ \E s \in FileSessions : BeginMkdir(t, s, PathOf(<<>>), nC)
        \/ FinishMkdir(t)
        \/ \E s \in FileSessions : BeginUpload(t, s, PathOf(<<>>), nC, FALSE)
        \/ FinishUpload(t)
        \/ \E s \in FileSessions : \E from \in RaceSources :
              BeginMove(t, s, from, PathOf(<<nC>>))
        \/ FinishMove(t)
        \/ \E s \in FileSessions : \E from \in RaceSources :
              BeginCopy(t, s, from, PathOf(<<nC>>))
        \/ FinishCopy(t)
    \/ TrashRespond

\* the host path handler h is about to write
DestinationOf(h) ==
    IF h.pc = "mkdir:write" THEN h.fullPath
    ELSE IF h.pc = "upload:write" THEN h.destPath
    ELSE h.to

\* C29: a move, copy, mkdir or upload without overwrite that is answered with
\* success has not written over an entry: nothing was at its destination
\* when it wrote, whatever other requests did since its test; of two requests
\* for one destination at most one succeeds.
C29_NoReplaceAfterCheck ==
    [][ \A t \in TaskIds :
          ((FinishMkdir(t) \/ FinishUpload(t) \/ FinishMove(t) \/ FinishCopy(t))
              /\ reply'.status = 200)
          => DestinationOf(handlers[t]) \notin DOMAIN disk ]_vars

\* the destination equals the source or lies under source + separator
Into(source, destination) ==
    destination = source \/ StartsWith(destination, source \o <<SLASH>>)

\* C16: a move or copy whose destination equals the source or lies under
\* source + separator is refused, the call throws, and storage is left as it
\* was (LocalStorageAdapter).
C16_IntoItselfRefused ==
    [][ \A s \in LocalPaths : \A d \in LocalPaths :
          (Into(s, d) /\ (LocalMove(s, d) \/ LocalCopy(s, d)))
          => (~outcome'.ok /\ disk' = disk) ]_vars

\* the host path the adapter's path stands for
LocalHostPath(path) == SegmentsOf(LOCAL_ROOT) \o SegmentsOf(path)

\* C17: a move, copy or mkdir whose destination host path holds an entry
\* (other than the entry moved or copied itself) is refused, the call throws,
\* and the source and the entry at the destination are left as they were
\* (LocalStorageAdapter).
C17_NoOverwrite ==
    [][ \A d \in LocalPaths :
          LocalHostPath(d) \in DOMAIN disk
          => /\ LocalMkdir(d) => (~outcome'.ok /\ disk' = disk)
             /\ \A s \in LocalPaths :
                   (~Into(s, d) /\ (LocalMove(s, d) \/ LocalCopy(s, d)))
                   => (~outcome'.ok /\ disk' = disk) ]_vars

\* the entry at path is a single file
SingleFile(d, path) ==
    LocalHostPath(path) \in DOMAIN d /\ d[LocalHostPath(path)].type = "file"

\* C20: after a move(s, d) that returns normally exists(s) is false and
\* exists(d) is true, and when s was a single file move(d, s) then returns
\* normally and brings the storage back to what it was (LocalStorageAdapter).
C20_MoveRoundTrip ==
    [][ \A s \in LocalPaths : \A d \in LocalPaths :
          (LocalMove(s, d) /\ outcome'.ok)
          => /\ ~localExists(disk', LOCAL_ROOT, s).found
             /\ localExists(disk', LOCAL_ROOT, d).found
             /\ SingleFile(disk, s)
                => /\ localMove(disk', LOCAL_ROOT, d, s).ok
                   /\ localMove(disk', LOCAL_ROOT, d, s).store = disk ]_vars

\* C18: after S3 delete(path) has returned, the bucket holds no object with
\* the key of path and none whose key starts with that key and "/", however
\* many there were; when there was none before, delete returns normally and
\* leaves the bucket as it was.
C18_DeleteRemovesAll ==
    [][ \A p \in S3Paths :
          LET at(key) == {k \in DOMAIN bucket : k = key \/ StartsWith(k, key \o <<SLASH>>)}
              left(key) == {k \in DOMAIN bucket' : k = key \/ StartsWith(k, key \o <<SLASH>>)}
          IN  S3Delete(p)
              => /\ outcome'.ok
                 /\ left(normalizeKey(p)) = {}
                 /\ at(normalizeKey(p)) = {} => bucket' = bucket ]_vars

\* the entries a listing of the simulated directory dir is to hold: a file
\* entry for every object directly under dir, a dir entry for every immediate
\* sub-prefix, nothing for the placeholder of dir itself
DirectChildren(b, dir) ==
    LET rest(k, base) == SubSeq(k, Len(base) + 1, Len(k))
        entry(k, r) ==
            IF Split(r, SLASH) = <<r>>
            THEN [name |-> r, type |-> "file", size |-> b[k].size]
            ELSE [name |-> Split(r, SLASH)[1], type |-> "directory", size |-> 0]
        below(base) ==
            {entry(k, rest(k, base)) : k \in {j \in DOMAIN b : StartsWith(j, base) /\ j # base}}
    IN  below(IF normalizeKey(dir) = <<>> THEN <<>> ELSE normalizeKey(dir) \o <<SLASH>>)

\* C19: S3 list(dir) returns exactly the direct children of dir: one dir entry
\* for each immediate sub-prefix, one file entry with its size for each object
\* directly under dir, and nothing for the placeholder object of dir.
C19_ListDirectChildren ==
    [][ \A p \in S3Paths \cup {<<SLASH>>} :
          S3List(p) => Range(outcome'.entries) = DirectChildren(bucket, p) ]_vars

\* the pieces of a normalized path between its separators
PiecesOf(n) == Split(n, SLASH)

\* C26: what normalizeRequestPath returns begins with "/", has no ".."
\* segment and, unless it is the root "/" itself, no empty segment other than
\* the leading one.
C26_NormalizedShape ==
    out.op = "resolveSafePath"
    => /\ StartsWith(out.normalized, <<SLASH>>)
       /\ \A i \in 1..Len(PiecesOf(out.normalized)) : PiecesOf(out.normalized)[i] # DOTDOT
       /\ \/ out.normalized = <<SLASH>>
          \/ \A i \in 2..Len(PiecesOf(out.normalized)) : PiecesOf(out.normalized)[i] # <<>>

\* the key under destination that stands for key k at or under source
Carried(k, source, destination) ==
    normalizeKey(destination) \o SubSeq(k, Len(normalizeKey(source)) + 1, Len(k))

\* C28: an S3 move(s, d) that throws leaves the bucket as it was, and every
\* object a move takes away from the key of s or from under <key of s>/ is,
\* after the move, at the corresponding key at or under d with the same content.
C28_MoveKeepsData ==
    [][ \A s \in S3Paths : \A d \in S3Paths :
          S3Move(s, d)
          => /\ ~outcome'.ok => bucket' = bucket
             /\ \A k \in DOMAIN bucket \ DOMAIN bucket' :
                   /\ Carried(k, s, d) \in DOMAIN bucket'
                   /\ bucket'[Carried(k, s, d)] = bucket[k] ]_vars

-----------------------------------------------------------------------------
\* the pages a list call with limit and offset may return of the whole sorted
\* listing: the slice from offset on with at most limit entries; when limit
\* is absent all entries, from offset on or from the start
PagesOf(whole, limit, offset) ==
    LET from(start) ==
            IF limit = Absent THEN {whole, Slice(whole, start, Len(whole))}
            ELSE {Slice(whole, start, start + limit[1])}
    IN  from(IF offset = Absent THEN 0 ELSE offset[1])

\* the whole sorted listing of a directory of the local adapter
WholeLocal(d, path) == localList(d, LOCAL_ROOT, path, Absent, Absent).entries

\* the whole sorted listing of the bucket: the listing of a response that
\* has room for every key
WholeS3(b, path) == s3List(b, path, Given(Cardinality(DOMAIN b) + 1), Absent).entries

\* C21: on either adapter list(path, {limit, offset}) returns as total the
\* number of entries of the whole directory, whatever limit and offset are,
\* and as entries the slice of the whole sorted listing from offset on with
\* at most limit entries, all of them when limit is absent.
C21_Pagination ==
    [][ \A limit \in ListOptions : \A offset \in ListOptions :
          /\ \A p \in {<<SLASH>>, PathOf(<<nA>>)} :
                (LocalList(p, limit, offset) /\ outcome'.ok)
                => /\ outcome'.total = Len(WholeLocal(disk, p))
                   /\ outcome'.entries \in PagesOf(WholeLocal(disk, p), limit, offset)
          /\ S3ListOptions(<<SLASH>>, limit, offset)
             => /\ outcome'.total = Len(WholeS3(bucket, <<SLASH>>))
                /\ outcome'.entries \in PagesOf(WholeS3(bucket, <<SLASH>>), limit, offset) ]_vars

\* every directory entry precedes every file entry, and the names of each
\* group are in alphabetical order when their case is left aside
DirsFirstByName(entries) ==
    \A i \in 1..Len(entries) : \A j \in (i + 1)..Len(entries) :
        /\ ~(entries[i].type = "file" /\ entries[j].type # "file")
        /\ entries[i].type = entries[j].type
           => ~KeyLess(LowerCase(entries[j].name), LowerCase(entries[i].name))

\* C22: in what list returns, on both adapters and on the list endpoint,
\* every directory entry precedes every file entry and within each group the
\* names are in alphabetical order compared case-insensitively.
C22_SortedListing ==
    (outcome.op = "list" /\ outcome.ok) => DirsFirstByName(outcome.entries)

\* the local adapter has listed the directories a, B before the files c, X
C22_Witness ==
    /\ outcome.op = "list"
    /\ outcome.adapter = "local"
    /\ [i \in 1..Len(outcome.entries) |-> outcome.entries[i].name]
           = <<TRASH_NAME, nA, nUpperB, nC, nL, nUpperX>>

\* the entry of the listed root directory with this name is a symbolic link
LinkChild(d, name) ==
    /\ SegmentsOf(LOCAL_ROOT) \o <<name>> \in DOMAIN d
    /\ d[SegmentsOf(LOCAL_ROOT) \o <<name>>].type = "link"

\* C24: no listing of the list endpoint or of LocalStorageAdapter.list holds
\* an entry for a child that is a symbolic link.
C24_NoLinkListed ==
    (outcome.op = "list" /\ outcome.adapter \in {"local", "endpoint"})
    => \A i \in 1..Len(outcome.entries) : ~LinkChild(disk, outcome.entries[i].name)

RECURSIVE SizeOfFiles(_, _)
\* the sizes of the files at the paths in files, added up
SizeOfFiles(d, files) ==
    IF files = {} THEN 0
    ELSE LET with(p) == d[p].size + SizeOfFiles(d, files \ {p})
         IN  with(CHOOSE p \in files : TRUE)

RECURSIVE RecursiveTotal(_, _)
\* the recursive total size of the paths: for each path the files at or
\* under it
RecursiveTotal(d, paths) ==
    IF paths = <<>> THEN 0
    ELSE SizeOfFiles(d, {q \in Subtree(d, Head(paths)) : d[q].type = "file"})
         + RecursiveTotal(d, Tail(paths))

\* C23: a zip archive request uses store mode exactly when the recursive
\* total size of the requested paths is greater than or equal to
\* ARCHIVE_LARGE_BYTES, a total equal to the threshold included, and normal
\* deflate otherwise; the short-circuiting probe decides as the whole sum does.
C23_StoreAtThreshold ==
    [][ \A format \in {"zip", "targz"} : \A paths \in ArchiveRequests : \A reversed \in BOOLEAN :
          Archive(format, paths, reversed)
          => /\ format = "zip"
                => (outcome'.mode = "store"
                       <=> RecursiveTotal(disk, paths) >= ARCHIVE_LARGE_BYTES)
             /\ format = "zip" => outcome'.mode \in {"store", "normal"}
             /\ format # "zip" => outcome'.mode = "gzip" ]_vars

\* a zip request whose probe measured exactly the threshold uses store mode
C23_Witness ==
    /\ outcome.op = "archive"
    /\ outcome.total = ARCHIVE_LARGE_BYTES
    /\ outcome.mode = "store"
    /\ RecursiveTotal(disk, <<<<nD, nU, nA>>, <<nD, nU, nC>>>>) = ARCHIVE_LARGE_BYTES

(* Specifications.                                                         *)

InitPath == PathInit /\ SessIdle /\ S3Idle /\ TrashIdle /\ AdapterIdle

SpecPath == InitPath /\ [][PathNext]_vars

InitSession == SessInit /\ PathIdle /\ S3Idle /\ TrashIdle /\ AdapterIdle

SpecSession == InitSession /\ [][SessNext]_vars

InitRegistry == RegistryInit /\ PathIdle /\ SessIdle /\ TrashIdle /\ AdapterIdle

SpecRegistry == InitRegistry /\ [][RegistryNext]_vars

InitSettings == SettingsInit /\ PathIdle /\ SessIdle /\ TrashIdle /\ AdapterIdle

SpecSettings == InitSettings /\ [][SettingsNext]_vars

InitTrash == TrashInit /\ PathIdle /\ SessIdle /\ S3Idle /\ AdapterIdle

SpecTrash == InitTrash /\ [][TrashNext]_vars

InitTrashRace == TrashRaceInit /\ PathIdle /\ SessIdle /\ S3Idle /\ AdapterIdle

SpecTrashRace == InitTrashRace /\ [][TrashRaceNext]_vars

InitFiles == FilesInit /\ PathIdle /\ SessIdle /\ S3Idle /\ AdapterIdle

SpecFiles == InitFiles /\ [][FilesNext]_vars

InitOps == OpsInit /\ PathIdle /\ SessIdle /\ S3Idle /\ AdapterIdle

SpecOps == InitOps /\ [][OpsNext]_vars

InitAuth == SessInit /\ PathIdle /\ S3Idle /\ TrashIdle /\ AdapterIdle

SpecAuth == InitAuth /\ [][AuthNext]_vars

InitLogin == SessInit /\ PathIdle /\ S3Idle /\ TrashIdle /\ AdapterIdle

SpecLogin == InitLogin /\ [][LoginNext]_vars

InitLocal == LocalInit /\ PathIdle /\ SessIdle /\ S3Idle

SpecLocal == InitLocal /\ [][LocalNext]_vars

InitS3Adapter == S3AdapterInit /\ PathIdle /\ SessIdle /\ S3Idle /\ TrashIdle

SpecS3Adapter == InitS3Adapter /\ [][S3AdapterNext]_vars

InitStore == SettingsInit /\ PathIdle /\ SessIdle /\ TrashIdle /\ AdapterIdle

SpecStore == InitStore /\ [][StoreNext]_vars

InitListing == ListingInit /\ PathIdle /\ SessIdle /\ S3Idle

SpecListing == InitListing /\ [][ListingNext]_vars

InitArchive == ArchiveInit /\ PathIdle /\ SessIdle /\ S3Idle

SpecArchive == InitArchive /\ [][ArchiveNext]_vars

InitConfigs == ConfigsInit /\ PathIdle /\ SessIdle

SpecConfigs == InitConfigs /\ [][ConfigsNext]_vars

InitOpen == OpenInit /\ PathIdle /\ SessIdle /\ S3Idle

SpecOpen == InitOpen /\ [][OpenNext]_vars

InitRace == RaceInit /\ PathIdle /\ SessIdle /\ S3Idle /\ AdapterIdle

SpecRace == InitRace /\ [][RaceNext]_vars

====
